---- MODULE Spec2Model ----
(***************************************************************************)
(* CrowPanel Pico touch panel: the Button debounce/latch state machine of  *)
(* buttons.py, the Buzzer of buzzer.py and the GT911 touch controller      *)
(* driver of gt911.py.                                                     *)
(*                                                                         *)
(* Python objects are records whose fields keep the attribute names.       *)
(* Methods are operators from the object (and the arguments) to the        *)
(* object after the call, together with the returned value and the calls   *)
(* made on collaborators.  None, True and False stored in an attribute     *)
(* that is tested for truthiness are the strings "None", "True", "False".  *)
(***************************************************************************)
EXTENDS Integers, Sequences, FiniteSets, TLC

VARIABLES
    buttons,    \* code.py: the list of Button objects
    buzzer,     \* code.py: the one Buzzer object handed to the buttons
    now,        \* adafruit_ticks.ticks_ms(): the clock value read by the last tick
    touches,    \* code.py: the sample handed to the last is_pressed call
    op,         \* the last operation performed on a button
    ret,        \* the value returned by the last is_pressed call
    tones,      \* number of Buzzer.play_tone calls made by the last operation
    prev,       \* observer: the list of Button objects before the last operation
    ep,         \* observer: the current touch episode of button 1
    presses,    \* observer: number of is_pressed calls that returned True
    dev,        \* the GT911 device: its status register and point blocks
    poll,       \* GT911.touches: position in the call and its local variables
    bus,        \* the transport transactions of the current call on the GT911 object
    result,     \* outcome of the last call on the GT911 object
    gt,         \* the GT911 object: its fields and the position in its constructor
    pins,       \* the reset and interrupt lines: direction and driven level
    chip,       \* the GT911 device: configuration block, identity block, registers
    events,     \* everything the constructor did: pin operations, waits, transactions
    loop,       \* code.py: position in the main loop and the calls of the iteration
    frame       \* observer: the frame in the status register that no call has read yet

buttonVars == <<buttons, buzzer, now, touches, op, ret, tones, prev, ep, presses>>
ctlVars == <<gt, pins, chip, events>>
gtVars == <<dev, poll, bus, result, gt, pins, chip, events, loop, frame>>
vars == <<buttons, buzzer, now, touches, op, ret, tones, prev, ep, presses,
          dev, poll, bus, result, gt, pins, chip, events, loop, frame>>

(***************************************************************************)
(* Bounds of the model.                                                    *)
(***************************************************************************)
MaxTime == 320

\* Longest sample handed to Button._check_touch on its own.
MaxPoints == 2

\* Clock advances between two ticks (ms), chosen around the debounce delay.
TimeSteps == {0, 40, 149, 150, 151, 160}

\* Samples handed to a tick: empty, one point inside the button at (0,0),
\* one point outside, and an outside point followed by an inside one.
Samples ==
    { <<>>,
      << <<10, 10, 5>> >>,
      << <<200, 200, 5>> >>,
      << <<200, 200, 5>>, <<80, 0, 9>> >> }

(***************************************************************************)
(* buttons.py: class constants                                             *)
(***************************************************************************)
STATE_NORMAL == 0
STATE_PRESSED == 1
STATE_DEBOUNCED == 15
STATE_INDICATOR == 2
STATE_INDICATOR_PRESSED == 3
STATE_INDICATOR_DEBOUNCED == 35

ICON_NORMAL == 0
ICON_PRESSED == 1
ICON_INDICATOR == 2
ICON_INDICATOR_PRESSED == 3

BUTTON_SIZE == 80

\* Default of the debounce_delay parameter of Button.__init__.
DEBOUNCE_DELAY_DEFAULT == 150

\* Python truthiness of an attribute holding None, False, True or an object.
Truthy(v) == v \notin {"None", "False"}

(***************************************************************************)
(* buzzer.py                                                               *)
(***************************************************************************)
\* Buzzer.__init__
Buzzer == [pwm |-> "None", frequency |-> 0, duty_cycle |-> 0, is_playing |-> FALSE]

\* Buzzer.stop_tone
stop_tone(self) ==
    [self EXCEPT !.duty_cycle = IF self.pwm # "None" THEN 0 ELSE @,
                 !.is_playing = FALSE]

\* Mutant of play_tone: the tone is not stopped.
play_tone_no_stop(self, frequency, duration_ms) ==
    [self EXCEPT !.pwm = "PWMOut",
                 !.frequency = frequency,
                 !.duty_cycle = 32768,
                 !.is_playing = TRUE]

\* Buzzer.play_tone: lazily creates the PWM, plays for duration_ms, then stops.
play_tone(self, frequency, duration_ms) ==
    stop_tone([self EXCEPT !.pwm = "PWMOut",
                           !.frequency = frequency,
                           !.duty_cycle = 32768,
                           !.is_playing = TRUE])

(***************************************************************************)
(* buttons.py: class Button                                                *)
(***************************************************************************)
\* Button.__init__; a new TileGrid shows tile 0.
Button(x, y, latching, bz, debounce_delay) ==
    [ _x |-> x, _y |-> y,
      _latching |-> latching,
      _buzzer |-> bz,
      _state |-> STATE_NORMAL,
      _is_touched |-> FALSE,
      _last_touch_time |-> 0,
      _debounce_delay |-> debounce_delay,
      icon |-> ICON_NORMAL ]

\* Mutant of _check_touch: the far edges are exclusive.
_check_touch_exclusive(self, tch) ==
    LET x_max == self._x + BUTTON_SIZE
        y_max == self._y + BUTTON_SIZE
    IN  \E k \in DOMAIN tch :
            /\ self._x <= tch[k][1] /\ tch[k][1] < x_max
            /\ self._y <= tch[k][2] /\ tch[k][2] < y_max

\* Button._check_touch
_check_touch(self, tch) ==
    LET x_max == self._x + BUTTON_SIZE
        y_max == self._y + BUTTON_SIZE
    IN  \E k \in DOMAIN tch :
            /\ self._x <= tch[k][1] /\ tch[k][1] <= x_max
            /\ self._y <= tch[k][2] /\ tch[k][2] <= y_max

\* The result of a handler: the object after the call, the returned value and
\* the play_tone calls made on the buzzer.
Result(self, r, calls) == [self |-> self, ret |-> r, calls |-> calls]

\* if self._buzzer: self._buzzer.play_tone(1760, 2)
ConfirmTone(self) ==
    IF Truthy(self._buzzer) THEN << <<1760, 2>> >> ELSE <<>>

\* Mutant of ticks_diff: the arguments are swapped.
ticks_diff_swapped(t1, t2) == t2 - t1

\* adafruit_ticks.ticks_diff, for clock values far below the wrap of the tick counter.
ticks_diff(t1, t2) == t1 - t2

\* Mutant of _handle_normal_state: the timestamp is not recorded.
_handle_normal_state_no_timestamp(self, ticks_ms) ==
    IF self._is_touched
    THEN Result([self EXCEPT !._state = STATE_PRESSED], FALSE, <<>>)
    ELSE Result(self, FALSE, <<>>)

\* Button._handle_normal_state
_handle_normal_state(self, ticks_ms) ==
    IF self._is_touched
    THEN Result([self EXCEPT !._last_touch_time = ticks_ms,
                             !._state = STATE_PRESSED], FALSE, <<>>)
    ELSE Result(self, FALSE, <<>>)

\* Mutant of _handle_pressed_state: an untouched tick leaves the state alone.
_handle_pressed_state_hold(self, time_since_last_touch) ==
    IF self._is_touched
    THEN IF time_since_last_touch > self._debounce_delay
         THEN Result([self EXCEPT !._state = STATE_DEBOUNCED,
                                  !.icon = ICON_PRESSED],
                     FALSE, ConfirmTone(self))
         ELSE Result(self, FALSE, <<>>)
    ELSE Result(self, FALSE, <<>>)

\* Mutant of _handle_pressed_state: the debounce test is >= instead of >.
_handle_pressed_state_ge(self, time_since_last_touch) ==
    IF self._is_touched
    THEN IF time_since_last_touch >= self._debounce_delay
         THEN Result([self EXCEPT !._state = STATE_DEBOUNCED,
                                  !.icon = ICON_PRESSED],
                     FALSE, ConfirmTone(self))
         ELSE Result(self, FALSE, <<>>)
    ELSE Result([self EXCEPT !._state = STATE_NORMAL,
                             !.icon = ICON_NORMAL], FALSE, <<>>)

\* Button._handle_pressed_state
_handle_pressed_state(self, time_since_last_touch) ==
    IF self._is_touched
    THEN IF time_since_last_touch > self._debounce_delay
         THEN Result([self EXCEPT !._state = STATE_DEBOUNCED,
                                  !.icon = ICON_PRESSED],
                     FALSE, ConfirmTone(self))
         ELSE Result(self, FALSE, <<>>)
    ELSE Result([self EXCEPT !._state = STATE_NORMAL,
                             !.icon = ICON_NORMAL], FALSE, <<>>)

\* Mutant of _handle_debounced_state: the latching branch is missing.
_handle_debounced_state_no_latch(self) ==
    IF ~self._is_touched
    THEN Result([self EXCEPT !._state = STATE_NORMAL,
                             !.icon = ICON_NORMAL], TRUE, <<>>)
    ELSE Result(self, FALSE, <<>>)

\* Mutant of _handle_debounced_state: the release always latches.
_handle_debounced_state_always_latch(self) ==
    IF ~self._is_touched
    THEN Result([self EXCEPT !._state = STATE_INDICATOR,
                             !.icon = ICON_INDICATOR], TRUE, <<>>)
    ELSE Result(self, FALSE, <<>>)

\* Button._handle_debounced_state
_handle_debounced_state(self) ==
    IF ~self._is_touched
    THEN IF Truthy(self._latching)
         THEN Result([self EXCEPT !._state = STATE_INDICATOR,
                                  !.icon = ICON_INDICATOR], TRUE, <<>>)
         ELSE Result([self EXCEPT !._state = STATE_NORMAL,
                                  !.icon = ICON_NORMAL], TRUE, <<>>)
    ELSE Result(self, FALSE, <<>>)

\* Button._handle_indicator_state
_handle_indicator_state(self, ticks_ms) ==
    IF self._is_touched
    THEN Result([self EXCEPT !._last_touch_time = ticks_ms,
                             !._state = STATE_INDICATOR_PRESSED], FALSE, <<>>)
    ELSE Result(self, FALSE, <<>>)

\* Mutant of _handle_indicator_pressed_state: an untouched tick leaves the
\* state alone.
_handle_indicator_pressed_state_hold(self, time_since_last_touch) ==
    IF self._is_touched
    THEN IF time_since_last_touch > self._debounce_delay
         THEN Result([self EXCEPT !._state = STATE_INDICATOR_DEBOUNCED,
                                  !.icon = ICON_INDICATOR_PRESSED],
                     FALSE, ConfirmTone(self))
         ELSE Result(self, FALSE, <<>>)
    ELSE Result(self, FALSE, <<>>)

\* Mutant of _handle_indicator_pressed_state: the tone is played on every
\* touched tick, outside the debounce test.
_handle_indicator_pressed_state_tone(self, time_since_last_touch) ==
    IF self._is_touched
    THEN IF time_since_last_touch > self._debounce_delay
         THEN Result([self EXCEPT !._state = STATE_INDICATOR_DEBOUNCED,
                                  !.icon = ICON_INDICATOR_PRESSED],
                     FALSE, ConfirmTone(self))
         ELSE Result(self, FALSE, ConfirmTone(self))
    ELSE Result([self EXCEPT !._state = STATE_INDICATOR,
                             !.icon = ICON_INDICATOR], FALSE, <<>>)

\* Button._handle_indicator_pressed_state
_handle_indicator_pressed_state(self, time_since_last_touch) ==
    IF self._is_touched
    THEN IF time_since_last_touch > self._debounce_delay
         THEN Result([self EXCEPT !._state = STATE_INDICATOR_DEBOUNCED,
                                  !.icon = ICON_INDICATOR_PRESSED],
                     FALSE, ConfirmTone(self))
         ELSE Result(self, FALSE, <<>>)
    ELSE Result([self EXCEPT !._state = STATE_INDICATOR,
                             !.icon = ICON_INDICATOR], FALSE, <<>>)

\* Mutant of _handle_indicator_debounced_state: the release keeps the icon.
_handle_indicator_debounced_state_keep_icon(self) ==
    IF ~self._is_touched
    THEN Result([self EXCEPT !._state = STATE_NORMAL], TRUE, <<>>)
    ELSE Result(self, FALSE, <<>>)

\* Mutant of _handle_indicator_debounced_state: the release returns False.
_handle_indicator_debounced_state_false(self) ==
    IF ~self._is_touched
    THEN Result([self EXCEPT !._state = STATE_NORMAL,
                             !.icon = ICON_NORMAL], FALSE, <<>>)
    ELSE Result(self, FALSE, <<>>)

\* Button._handle_indicator_debounced_state
_handle_indicator_debounced_state(self) ==
    IF ~self._is_touched
    THEN Result([self EXCEPT !._state = STATE_NORMAL,
                             !.icon = ICON_NORMAL], TRUE, <<>>)
    ELSE Result(self, FALSE, <<>>)

\* Button.is_pressed, with ticks_ms the value the clock shows during the call.
is_pressed(self0, tch, ticks_ms) ==
    LET self == [self0 EXCEPT !._is_touched = _check_touch(self0, tch)]
        time_since_last_touch == ticks_diff(ticks_ms, self._last_touch_time)
    IN  IF self._state = STATE_NORMAL
            THEN _handle_normal_state(self, ticks_ms)
        ELSE IF self._state = STATE_PRESSED
            THEN _handle_pressed_state(self, time_since_last_touch)
        ELSE IF self._state = STATE_DEBOUNCED
            THEN _handle_debounced_state(self)
        ELSE IF self._state = STATE_INDICATOR
            THEN _handle_indicator_state(self, ticks_ms)
        ELSE IF self._state = STATE_INDICATOR_PRESSED
            THEN _handle_indicator_pressed_state(self, time_since_last_touch)
        ELSE IF self._state = STATE_INDICATOR_DEBOUNCED
            THEN _handle_indicator_debounced_state(self)
        ELSE Result(self, FALSE, <<>>)

\* Button.indicator (getter)
indicator(self) ==
    self._state \in {STATE_INDICATOR, STATE_INDICATOR_PRESSED, STATE_INDICATOR_DEBOUNCED}

\* Mutant of the indicator setter: the latching test is missing.
indicator_set_unguarded(self, state) ==
    IF state
    THEN [self EXCEPT !._state = STATE_INDICATOR, !.icon = ICON_INDICATOR]
    ELSE [self EXCEPT !._state = STATE_NORMAL, !.icon = ICON_NORMAL]

\* Mutant of the indicator setter: the icon is not updated.
indicator_set_no_icon(self, state) ==
    IF Truthy(self._latching)
    THEN IF state
         THEN [self EXCEPT !._state = STATE_INDICATOR]
         ELSE [self EXCEPT !._state = STATE_NORMAL]
    ELSE self

\* Button.indicator (setter)
indicator_set(self, state) ==
    IF Truthy(self._latching)
    THEN IF state
         THEN [self EXCEPT !._state = STATE_INDICATOR, !.icon = ICON_INDICATOR]
         ELSE [self EXCEPT !._state = STATE_NORMAL, !.icon = ICON_NORMAL]
    ELSE self

(***************************************************************************)
(* Observer of the touch episodes of one button.  An episode starts with   *)
(* the first touched tick after an untouched one and ends with the first   *)
(* untouched tick (the release).                                           *)
(***************************************************************************)
EpIdle == [phase |-> "idle", from |-> STATE_NORMAL, t0 |-> 0, last |-> 0, trues |-> 0]

EpTick(e, before, after, r, t) ==
    IF e.phase = "held"
    THEN IF after._is_touched
         THEN [e EXCEPT !.last = t, !.trues = @ + (IF r THEN 1 ELSE 0)]
         ELSE [e EXCEPT !.phase = "released", !.trues = @ + (IF r THEN 1 ELSE 0)]
    ELSE IF after._is_touched
         THEN [phase |-> "held", from |-> before._state, t0 |-> t, last |-> t,
               trues |-> IF r THEN 1 ELSE 0]
         ELSE EpIdle

(***************************************************************************)
(* gt911.py: register map                                                  *)
(***************************************************************************)
\* 0x814E
_REG_POINT_STATUS == 33102
\* 0x814F
_REG_POINT_START == 33103

(***************************************************************************)
(* The GT911 device behind the transport: a status register and the point  *)
(* blocks that follow it, one block of 8 bytes per 8 register addresses.   *)
(***************************************************************************)
\* The 8 bytes of a point block: track id, x, y and size as little-endian
\* 16-bit values, one reserved byte.
PointBlock(id, x, y, size) ==
    << id, x % 256, x \div 256, y % 256, y \div 256, size % 256, size \div 256, 0 >>

\* Number of 8-byte blocks a 4-bit point count can address.
NumBlocks == 15

\* Two contents of the device's point memory.
BlocksA == [k \in 0..(NumBlocks - 1) |-> PointBlock(k, 10 + k, 20 + k, 5)]
BlocksB == [k \in 0..(NumBlocks - 1) |-> PointBlock(k, 300 + k, 239 - k, 260)]
BlockTables == {BlocksA, BlocksB}

\* Status bytes the device posts: data-ready bit set or not, counts within
\* and beyond the five supported points.
StatusBytes == {0, 5, 128, 129, 130, 133, 134, 143}

\* What the device answers to a read of `length` bytes at `register`.
DevRead(d, register, length) ==
    IF register = _REG_POINT_STATUS
    THEN << d.status >>
    ELSE d.blocks[(register - _REG_POINT_START) \div 8]

\* Mutant of DevWrite: the device does not act on the write.
DevWrite_ignored(d, register, data) == d

\* The device after a write of one byte.
DevWrite(d, register, data) ==
    IF register = _REG_POINT_STATUS THEN [d EXCEPT !.status = data] ELSE d

(***************************************************************************)
(* gt911.py: GT911.touches, one step per transport transaction             *)
(***************************************************************************)
\* GT911._read: one write-then-read transaction of `length` bytes at `register`.
_read(register, length) ==
    [kind |-> "read", register |-> register, n |-> length]

\* GT911._write_8: one write transaction of the byte data & 0xFF to `register`.
_write_8(register, data) ==
    [kind |-> "write", register |-> register, n |-> data % 256]

\* A transaction as logged on the bus: the request and whether it succeeded.
Tx(request, ok) ==
    [kind |-> request.kind, register |-> request.register, n |-> request.n, ok |-> ok]

\* Mutant of unpack_HHH: the slice starts at the track id, coordinate_data[0:6].
unpack_HHH_from_id(data) ==
    << data[1] + 256 * data[2], data[3] + 256 * data[4], data[5] + 256 * data[6] >>

\* struct.unpack("<HHH", coordinate_data[1:7])
unpack_HHH(data) ==
    << data[2] + 256 * data[3], data[4] + 256 * data[5], data[6] + 256 * data[7] >>

\* touch_status & 0x80
DataReady(touch_status) == (touch_status \div 128) % 2 = 1

\* touch_status & 0x0F
PointCount(touch_status) == touch_status % 16

\* Not in a call.
PollIdle ==
    [pc |-> "idle", touch_status |-> 0, num_touch_points |-> 0, i |-> 0,
     touch_data |-> << <<>>, <<>>, <<>>, <<>>, <<>> >>]

Returned(value) == [kind |-> "returned", value |-> value]
Raised(error) == [kind |-> "raised", value |-> error]

\* Lines 191-200: the locals are initialised, the status register is read and
\* the branch is taken.
touches_read_status(p, touch_status) ==
    LET num == IF DataReady(touch_status) THEN PointCount(touch_status) ELSE 0
    IN  [p EXCEPT !.touch_status = touch_status,
                  !.num_touch_points = num,
                  !.i = 0,
                  !.pc = IF num > 0 THEN "points" ELSE "clear"]

\* Lines 203-209: one iteration of the loop, after its read returned
\* coordinate_data.  Storing into touch_data beyond its five slots raises.
touches_store_point(p, coordinate_data) ==
    IF p.i + 1 > Len(p.touch_data)
    THEN [p EXCEPT !.pc = "IndexError"]
    ELSE [p EXCEPT !.touch_data[p.i + 1] = unpack_HHH(coordinate_data),
                   !.i = p.i + 1,
                   !.pc = IF p.i + 1 < p.num_touch_points THEN "points" ELSE "clear"]

\* Line 215: touch_data[:num_touch_points]
touches_return(p) ==
    SubSeq(p.touch_data, 1,
           IF p.num_touch_points < Len(p.touch_data)
               THEN p.num_touch_points ELSE Len(p.touch_data))

\* No frame is waiting in the status register and the last call dropped none.
FrameNone == [pending |-> FALSE, dropped |-> FALSE]

InitGT ==
    /\ dev = [status |-> 0, blocks |-> BlocksA]
    /\ frame = FrameNone
    /\ poll = PollIdle
    /\ bus = <<>>
    /\ result = [kind |-> "none", value |-> <<>>]
    /\ gt = [pc |-> "none"]
    /\ pins = <<>>
    /\ chip = <<>>
    /\ events = <<>>
    /\ loop = [pc |-> "none"]

\* Line 196: the read of the status register.
touches_status_request == _read(_REG_POINT_STATUS, 1)

\* Line 205: the read of point block i.
touches_point_request(p) == _read(_REG_POINT_START + p.i * 8, 8)

\* Mutant of touches_clear_request: the write goes to the first point register.
touches_clear_request_wrong_register == _write_8(_REG_POINT_START, 0)

\* Line 212: the write that clears the status register.
touches_clear_request == _write_8(_REG_POINT_STATUS, 0)

\* The device posts a frame: a status byte and point data.  With the
\* data-ready bit set it is a frame waiting to be read.
DevicePost(status, blocks) ==
    /\ dev' = [status |-> status, blocks |-> blocks]
    /\ frame' = [frame EXCEPT !.pending = DataReady(status)]
    /\ UNCHANGED <<poll, bus, result>>
    /\ UNCHANGED <<buttonVars, ctlVars, loop>>

\* A call starts: self._read(_REG_POINT_STATUS, 1)[0].
PollReadStatus(ok) ==
    /\ poll.pc = "idle"
    /\ LET rq == touches_status_request
       IN  /\ bus' = << Tx(rq, ok) >>
           /\ IF ok
              THEN /\ poll' = touches_read_status(PollIdle, DevRead(dev, rq.register, rq.n)[1])
                   /\ result' = [kind |-> "pending", value |-> <<>>]
              ELSE /\ poll' = PollIdle
                   /\ result' = Raised("OSError")
    /\ frame' = [pending |-> IF ok THEN FALSE ELSE frame.pending, dropped |-> FALSE]
    /\ UNCHANGED dev
    /\ UNCHANGED <<buttonVars, ctlVars, loop>>

\* Mutant of PollReadPoint: a failed read is swallowed and the loop goes on
\* with the same block.
PollReadPoint_retry(ok) ==
    /\ poll.pc = "points"
    /\ LET rq == touches_point_request(poll)
           p == touches_store_point(poll, DevRead(dev, rq.register, rq.n))
       IN  /\ bus' = Append(bus, Tx(rq, ok))
           /\ IF ~ok
              THEN UNCHANGED <<poll, result>>
              ELSE IF p.pc = "IndexError"
              THEN poll' = [poll EXCEPT !.pc = "idle"] /\ result' = Raised("IndexError")
              ELSE poll' = p /\ UNCHANGED result
    /\ UNCHANGED <<dev, frame>>
    /\ UNCHANGED <<buttonVars, ctlVars, loop>>

\* self._read(_REG_POINT_START + i * 8, 8) and the store into touch_data[i].
PollReadPoint(ok) ==
    /\ poll.pc = "points"
    /\ LET rq == touches_point_request(poll)
           p == touches_store_point(poll, DevRead(dev, rq.register, rq.n))
       IN  /\ bus' = Append(bus, Tx(rq, ok))
           /\ IF ~ok
              THEN poll' = [poll EXCEPT !.pc = "idle"] /\ result' = Raised("OSError")
              ELSE IF p.pc = "IndexError"
              THEN poll' = [poll EXCEPT !.pc = "idle"] /\ result' = Raised("IndexError")
              ELSE poll' = p /\ UNCHANGED result
    /\ UNCHANGED <<dev, frame>>
    /\ UNCHANGED <<buttonVars, ctlVars, loop>>

\* self._write_8(_REG_POINT_STATUS, 0x00) and the return.
PollClear(ok) ==
    /\ poll.pc = "clear"
    /\ LET rq == touches_clear_request
       IN  /\ bus' = Append(bus, Tx(rq, ok))
           /\ IF ok
              THEN /\ dev' = DevWrite(dev, rq.register, rq.n)
                   /\ frame' = [pending |-> FALSE, dropped |-> frame.pending]
                   /\ result' = Returned(touches_return(poll))
              ELSE /\ UNCHANGED <<dev, frame>>
                   /\ result' = Raised("OSError")
    /\ poll' = [poll EXCEPT !.pc = "idle"]
    /\ UNCHANGED <<buttonVars, ctlVars, loop>>

NextPoll ==
    \/ \E status \in StatusBytes, blocks \in BlockTables : DevicePost(status, blocks)
    \/ \E ok \in BOOLEAN : PollReadStatus(ok)
    \/ \E ok \in BOOLEAN : PollReadPoint(ok)
    \/ \E ok \in BOOLEAN : PollClear(ok)

InitPoll ==
    /\ buttons = <<>>
    /\ buzzer = Buzzer
    /\ now = 0
    /\ touches = <<>>
    /\ op = "init"
    /\ ret = FALSE
    /\ tones = 0
    /\ prev = <<>>
    /\ ep = EpIdle
    /\ presses = 0
    /\ InitGT

\* Calls of GT911.touches against a device that posts frames at any time and
\* a transport whose transactions may fail.
SpecPoll == InitPoll /\ [][NextPoll]_vars

(***************************************************************************)
(* One button driven by ticks and indicator assignments.                   *)
(***************************************************************************)
InitButton ==
    /\ \E latching \in {"True", "False", "None"}, bz \in {"buzzer", "None"} :
          buttons = << Button(0, 0, latching, bz, DEBOUNCE_DELAY_DEFAULT) >>
    /\ buzzer = Buzzer
    /\ now = 0
    /\ touches = <<>>
    /\ op = "init"
    /\ ret = FALSE
    /\ tones = 0
    /\ prev = buttons
    /\ ep = EpIdle
    /\ presses = 0
    /\ InitGT

\* One call button.is_pressed(sample) at clock value now + dt.  The two reads of
\* ticks_ms() inside one call (lines 139 and 160) see the same value; the 2 ms
\* for which play_tone blocks are part of the dt of the next tick.
Tick(i, sample, dt) ==
    /\ now + dt <= MaxTime
    /\ LET r == is_pressed(buttons[i], sample, now + dt)
       IN  /\ buttons' = [buttons EXCEPT ![i] = r.self]
           /\ buzzer' = IF r.calls # <<>>
                            THEN play_tone(buzzer, r.calls[1][1], r.calls[1][2])
                            ELSE buzzer
           /\ ret' = r.ret
           /\ tones' = Len(r.calls)
           /\ ep' = EpTick(ep, buttons[i], r.self, r.ret, now + dt)
           /\ presses' = presses + (IF r.ret THEN 1 ELSE 0)
    /\ now' = now + dt
    /\ touches' = sample
    /\ prev' = buttons
    /\ op' = "tick"
    /\ UNCHANGED gtVars

\* One assignment button.indicator = state.
SetIndicator(i, state) ==
    /\ buttons' = [buttons EXCEPT ![i] = indicator_set(buttons[i], state)]
    /\ op' = IF state THEN "set_true" ELSE "set_false"
    /\ ret' = FALSE
    /\ tones' = 0
    /\ prev' = buttons
    /\ ep' = EpIdle
    /\ UNCHANGED <<buzzer, now, touches, presses>>
    /\ UNCHANGED gtVars

NextTicks ==
    \E i \in DOMAIN buttons, sample \in Samples, dt \in TimeSteps : Tick(i, sample, dt)

NextButton ==
    \/ \E i \in DOMAIN buttons, sample \in Samples, dt \in TimeSteps : Tick(i, sample, dt)
    \/ \E i \in DOMAIN buttons, state \in BOOLEAN : SetIndicator(i, state)

\* Ticks and indicator assignments in any order.
SpecButton == InitButton /\ [][NextButton]_vars

\* Ticks only.
SpecTicks == InitButton /\ [][NextTicks]_vars

(***************************************************************************)
(* Button._check_touch on its own: a button and a sample are drawn, the    *)
(* function is applied once.                                               *)
(***************************************************************************)
\* Corners of two buttons of the 80-pixel grid.
TouchOrigins == { <<0, 0>>, <<80, 80>> }

\* Coordinates on and next to the edges of those buttons.
TouchCoords == {79, 80, 160, 161}

TouchPoints == { <<x, y, a>> : x \in TouchCoords, y \in TouchCoords, a \in {0, 5} }

TouchSamples == UNION { [1..n -> TouchPoints] : n \in 0..MaxPoints }

InitTouch ==
    /\ \E o \in TouchOrigins :
          buttons = << Button(o[1], o[2], "False", "None", DEBOUNCE_DELAY_DEFAULT) >>
    /\ touches \in TouchSamples
    /\ buzzer = Buzzer
    /\ now = 0
    /\ op = "init"
    /\ ret = FALSE
    /\ tones = 0
    /\ prev = buttons
    /\ ep = EpIdle
    /\ presses = 0
    /\ InitGT

\* One call button._check_touch(touches).
CheckTouch ==
    /\ op = "init"
    /\ ret' = _check_touch(buttons[1], touches)
    /\ op' = "check"
    /\ UNCHANGED <<buttons, buzzer, now, touches, tones, prev, ep, presses>>
    /\ UNCHANGED gtVars

NextTouch == CheckTouch

SpecTouch == InitTouch /\ [][NextTouch]_vars

(***************************************************************************)
(* gt911.py: the constructor GT911.__init__ with _perform_reset,           *)
(* _check_config and _checksum, one step per transport transaction.        *)
(***************************************************************************)
\* 0x5D
_GT911_DEFAULT_I2C_ADDR == 93
\* 0x14
_GT911_SECONDARY_I2C_ADDR == 20
\* 0x8040
_REG_COMMAND == 32832
\* 0x8047
_REG_CONFIG_START == 32839
\* 0x8048
_REG_X_OUTPUT_MAX_LOW == 32840
\* 0x8049
_REG_X_OUTPUT_MAX_HIGH == 32841
\* 0x804A
_REG_Y_OUTPUT_MAX_LOW == 32842
\* 0x804B
_REG_Y_OUTPUT_MAX_HIGH == 32843
\* 0x80FF
_REG_CONFIG_CHKSUM == 33023
\* 0x8100
_REG_CONFIG_FRESH == 33024
\* 0x8140
_REG_PRODUCT_ID == 33088
_REG_CONFIG_SIZE == _REG_CONFIG_FRESH - _REG_CONFIG_START

\* Resolutions passed to the constructor and resolutions found in the device.
RequestedResolutions == { <<320, 240>>, <<800, 480>> }
DeviceResolutions == { <<320, 240>>, <<800, 480>>, <<320, 480>> }

\* Values the bytes of the configuration block other than the resolution
\* fields hold, the checksum byte included.
ConfigFills == {0, 101, 255}

\* Explicit addresses passed to the constructor; << >> is address=None.
AddressArgs == { << >>, << 93 >>, << 20 >> }

\* A configuration block of the device: every byte `fill` but the resolution.
ConfigBlock(fill, res) ==
    [k \in 1..(_REG_CONFIG_SIZE) |->
        IF k = 2 THEN res[1] % 256
        ELSE IF k = 3 THEN res[1] \div 256
        ELSE IF k = 4 THEN res[2] % 256
        ELSE IF k = 5 THEN res[2] \div 256
        ELSE fill]

\* The 11 bytes at _REG_PRODUCT_ID: "911", firmware version, the resolution
\* the device reports, vendor id.
IdentityBlock(res) ==
    << 57, 49, 49, 0, 96, 16,
       res[1] % 256, res[1] \div 256, res[2] % 256, res[2] \div 256, 0 >>

\* What the device answers to a read of `length` bytes at `register`.
ChipRead(c, register, length) ==
    IF register = _REG_PRODUCT_ID
    THEN SubSeq(c.info, 1, length)
    ELSE SubSeq(c.config, 1 + (register - _REG_CONFIG_START),
                (register - _REG_CONFIG_START) + length)

\* The device after a write of `data` at `register`: a byte to the reload flag
\* or the command register, a block to the configuration.
ChipWrite(c, register, data) ==
    IF register = _REG_CONFIG_FRESH THEN [c EXCEPT !.fresh = data]
    ELSE IF register = _REG_COMMAND THEN [c EXCEPT !.command = data]
    ELSE IF register = _REG_CONFIG_START THEN [c EXCEPT !.config = data]
    ELSE c

\* GT911._write_bytes: one write transaction of the block `data` at `register`.
_write_bytes(register, data) ==
    [kind |-> "write_bytes", register |-> register, n |-> data]

\* time.sleep, in microseconds.
sleep(us) == [kind |-> "sleep", us |-> us]

\* I2CDevice(i2c, address)
I2CDevice(address) == [kind |-> "open", address |-> address]

\* DigitalInOut.switch_to_output(value), .value = value, .switch_to_input()
switch_to_output(pin, value, drive_mode) ==
    [kind |-> "pin", pin |-> pin, act |-> "output", value |-> value, drive_mode |-> drive_mode]
set_value(pin, value) ==
    [kind |-> "pin", pin |-> pin, act |-> "value", value |-> value, drive_mode |-> "same"]
switch_to_input(pin) ==
    [kind |-> "pin", pin |-> pin, act |-> "input", value |-> FALSE, drive_mode |-> "same"]

\* A line after construction of its DigitalInOut, and after switch_to_input:
\* an input, not driven.
PinInput == [direction |-> "input", value |-> FALSE, drive_mode |-> "PUSH_PULL"]

\* The lines after one pin operation.
PinApply(ps, e) ==
    IF e.kind # "pin" THEN ps
    ELSE IF e.act = "input" THEN [ps EXCEPT ![e.pin] = PinInput]
    ELSE IF e.act = "value" THEN [ps EXCEPT ![e.pin].value = e.value]
    ELSE [ps EXCEPT ![e.pin] = [direction |-> "output", value |-> e.value,
                                drive_mode |-> e.drive_mode]]

RECURSIVE PinsAfter(_, _)
PinsAfter(ps, es) ==
    IF es = << >> THEN ps ELSE PinsAfter(PinApply(ps, Head(es)), Tail(es))

\* Mutant of resolve_address: the secondary address is chosen without looking
\* at the lines.
resolve_address_no_pins(self, address, use_secondary_i2c_address) ==
    IF address = << >>
    THEN IF use_secondary_i2c_address
         THEN _GT911_SECONDARY_I2C_ADDR
         ELSE _GT911_DEFAULT_I2C_ADDR
    ELSE address[1]

\* Lines 98-103: the address the session is opened at.
resolve_address(self, address, use_secondary_i2c_address) ==
    IF address = << >>
    THEN IF Truthy(self._reset) /\ Truthy(self._interrupt) /\ use_secondary_i2c_address
         THEN _GT911_SECONDARY_I2C_ADDR
         ELSE _GT911_DEFAULT_I2C_ADDR
    ELSE address[1]

\* Mutant of _perform_reset: the interrupt line is driven after the reset line
\* has been released.
_perform_reset_late_select(self, use_secondary_i2c_address) ==
    IF self._reset = "None"
    THEN IF Truthy(self._interrupt) THEN << switch_to_input("int") >> ELSE << >>
    ELSE << switch_to_output("reset", TRUE, "PUSH_PULL") >>
         \o (IF Truthy(self._interrupt)
             THEN << set_value("reset", FALSE), sleep(5000), set_value("reset", TRUE) >>
             ELSE << >>)
         \o << set_value("reset", FALSE), sleep(10000) >>
         \o << set_value("reset", TRUE) >>
         \o (IF Truthy(self._interrupt)
             THEN << switch_to_output("int", use_secondary_i2c_address, "OPEN_DRAIN"), sleep(100) >>
             ELSE << >>)
         \o (IF Truthy(self._interrupt)
             THEN << sleep(5000), switch_to_input("int") >>
             ELSE << >>)

\* Mutant of _perform_reset: the interrupt line is never switched back to
\* input.
_perform_reset_no_input(self, use_secondary_i2c_address) ==
    IF self._reset = "None"
    THEN << >>
    ELSE << switch_to_output("reset", TRUE, "PUSH_PULL") >>
         \o (IF Truthy(self._interrupt)
             THEN << set_value("reset", FALSE), sleep(5000), set_value("reset", TRUE) >>
             ELSE << >>)
         \o << set_value("reset", FALSE), sleep(10000) >>
         \o (IF Truthy(self._interrupt)
             THEN << switch_to_output("int", use_secondary_i2c_address, "OPEN_DRAIN"), sleep(100) >>
             ELSE << >>)
         \o << set_value("reset", TRUE) >>
         \o (IF Truthy(self._interrupt) THEN << sleep(5000) >> ELSE << >>)

\* GT911._perform_reset: the pin operations and waits, in order.
_perform_reset(self, use_secondary_i2c_address) ==
    IF self._reset = "None"
    THEN IF Truthy(self._interrupt) THEN << switch_to_input("int") >> ELSE << >>
    ELSE << switch_to_output("reset", TRUE, "PUSH_PULL") >>
         \o (IF Truthy(self._interrupt)
             THEN << set_value("reset", FALSE), sleep(5000), set_value("reset", TRUE) >>
             ELSE << >>)
         \o << set_value("reset", FALSE), sleep(10000) >>
         \o (IF Truthy(self._interrupt)
             THEN << switch_to_output("int", use_secondary_i2c_address, "OPEN_DRAIN"), sleep(100) >>
             ELSE << >>)
         \o << set_value("reset", TRUE) >>
         \o (IF Truthy(self._interrupt)
             THEN << sleep(5000), switch_to_input("int") >>
             ELSE << >>)

\* checksum += config_buffer[i] & 0xFF for the bytes lo..hi (counted from 1),
\* added up by halves.
RECURSIVE SumRange(_, _, _)
SumRange(config_buffer, lo, hi) ==
    IF lo > hi THEN 0
    ELSE IF lo = hi THEN config_buffer[lo] % 256
    ELSE LET mid == (lo + hi) \div 2
         IN  SumRange(config_buffer, lo, mid) + SumRange(config_buffer, mid + 1, hi)

\* The loop of lines 299-300: for i in range(n).
SumBytes(config_buffer, n) == SumRange(config_buffer, 1, n)

\* Mutant of _checksum: the one's complement, without the + 1.
_checksum_ones_complement(config_buffer) ==
    (-SumBytes(config_buffer, _REG_CONFIG_SIZE - 1) - 1) % 256

\* GT911._checksum: (~checksum + 1) & 0xFF, where ~s = -s - 1.
_checksum(config_buffer) ==
    ((-SumBytes(config_buffer, _REG_CONFIG_SIZE - 1) - 1) + 1) % 256

\* Lines 251-257: the resolution held in a configuration buffer.
current_width(config_buffer) ==
    config_buffer[(_REG_X_OUTPUT_MAX_HIGH - _REG_CONFIG_START) + 1] * 256
        + config_buffer[(_REG_X_OUTPUT_MAX_LOW - _REG_CONFIG_START) + 1]

current_height(config_buffer) ==
    config_buffer[(_REG_Y_OUTPUT_MAX_HIGH - _REG_CONFIG_START) + 1] * 256
        + config_buffer[(_REG_Y_OUTPUT_MAX_LOW - _REG_CONFIG_START) + 1]

\* Mutant of resolution_differs: the condition always holds.
resolution_differs_always(self, config_buffer) == TRUE

\* Line 260: the resolution in the buffer is not the requested one.
resolution_differs(self, config_buffer) ==
    current_width(config_buffer) # self._width \/ current_height(config_buffer) # self._height

\* Mutant of patch_config: the configuration version in byte 0 is raised too.
patch_config_version(self, config_buffer) ==
    LET patched ==
            [config_buffer EXCEPT
                ![1] = (@ + 1) % 256,
                ![(_REG_X_OUTPUT_MAX_LOW - _REG_CONFIG_START) + 1] = self._width % 256,
                ![(_REG_X_OUTPUT_MAX_HIGH - _REG_CONFIG_START) + 1] = (self._width \div 256) % 256,
                ![(_REG_Y_OUTPUT_MAX_LOW - _REG_CONFIG_START) + 1] = self._height % 256,
                ![(_REG_Y_OUTPUT_MAX_HIGH - _REG_CONFIG_START) + 1] = (self._height \div 256) % 256]
    IN  [patched EXCEPT ![(_REG_CONFIG_CHKSUM - _REG_CONFIG_START) + 1] = _checksum(patched)]

\* Lines 264-271: the four resolution bytes are patched, then the checksum.
patch_config(self, config_buffer) ==
    LET patched ==
            [config_buffer EXCEPT
                ![(_REG_X_OUTPUT_MAX_LOW - _REG_CONFIG_START) + 1] = self._width % 256,
                ![(_REG_X_OUTPUT_MAX_HIGH - _REG_CONFIG_START) + 1] = (self._width \div 256) % 256,
                ![(_REG_Y_OUTPUT_MAX_LOW - _REG_CONFIG_START) + 1] = self._height % 256,
                ![(_REG_Y_OUTPUT_MAX_HIGH - _REG_CONFIG_START) + 1] = (self._height \div 256) % 256]
    IN  [patched EXCEPT ![(_REG_CONFIG_CHKSUM - _REG_CONFIG_START) + 1] = _checksum(patched)]

\* Line 248: the wait after the configuration read.
check_config_read_wait == << sleep(500000) >>

\* Mutant of check_config_reload_wait: no wait.
check_config_no_wait == << >>

\* Line 278: the wait after the re-read, before the reload flag is written.
check_config_reload_wait == << sleep(1000000) >>

\* Mutant of check_config_fresh_request: the flag is written to the checksum
\* register.
check_config_fresh_request_chksum == _write_8(_REG_CONFIG_CHKSUM, 1)

\* Line 281: the write of the reload flag.
check_config_fresh_request == _write_8(_REG_CONFIG_FRESH, 1)

\* Line 116: the write that puts the device into coordinate reading mode.
command_request == _write_8(_REG_COMMAND, 0)

\* The device leaves the factory with one of the configurations; no object
\* has been constructed.  Besides the attributes, gt holds the constructor's
\* arguments address and use_secondary_i2c_address and the local config_buffer
\* of _check_config.
InitCtl ==
    /\ gt = [pc |-> "new", _width |-> 0, _height |-> 0, _reset |-> "None",
             _interrupt |-> "None", i2c_device |-> << >>, config_buffer |-> << >>,
             address |-> << >>, use_secondary_i2c_address |-> FALSE]
    /\ pins = [reset |-> PinInput, int |-> PinInput]
    /\ \E fill \in ConfigFills, res \in DeviceResolutions :
          chip = [config |-> ConfigBlock(fill, res), factory |-> ConfigBlock(fill, res),
                  info |-> IdentityBlock(res), fresh |-> 0, command |-> 255]
    /\ events = << >>

\* Lines 91-109: the fields are set, the address is resolved, the reset
\* sequence is performed and the transport session is opened.
Construct(address, width, height, reset_pin, int_pin, use_secondary_i2c_address) ==
    /\ gt.pc = "new"
    /\ LET self == [gt EXCEPT !._width = width, !._height = height,
                              !._reset = reset_pin, !._interrupt = int_pin,
                              !.address = address,
                              !.use_secondary_i2c_address = use_secondary_i2c_address]
           resolved == resolve_address(self, address, use_secondary_i2c_address)
           reset == _perform_reset(self, use_secondary_i2c_address)
       IN  /\ gt' = [self EXCEPT !.i2c_device = << resolved >>, !.pc = "config_read"]
           /\ pins' = PinsAfter(pins, reset)
           /\ events' = reset \o << I2CDevice(resolved) >>
    /\ UNCHANGED chip
    /\ UNCHANGED <<buttonVars, loop, frame, dev, poll, bus, result>>

\* Lines 247-260: the configuration block is read and compared.
CheckConfigRead(ok) ==
    /\ gt.pc = "config_read"
    /\ LET rq == _read(_REG_CONFIG_START, _REG_CONFIG_SIZE)
           config_buffer == ChipRead(chip, rq.register, rq.n)
       IN  IF ~ok
           THEN /\ events' = Append(events, Tx(rq, ok))
                /\ gt' = [gt EXCEPT !.pc = "raised"]
           ELSE /\ events' = Append(events, Tx(rq, ok)) \o check_config_read_wait
                /\ gt' = IF resolution_differs(gt, config_buffer)
                         THEN [gt EXCEPT !.config_buffer = patch_config(gt, config_buffer),
                                         !.pc = "config_write"]
                         ELSE [gt EXCEPT !.config_buffer = config_buffer, !.pc = "command"]
    /\ UNCHANGED <<pins, chip>>
    /\ UNCHANGED <<buttonVars, loop, frame, dev, poll, bus, result>>

\* Mutant of CheckConfigWrite: a failed write is swallowed.
CheckConfigWrite_swallow(ok) ==
    /\ gt.pc = "config_write"
    /\ LET rq == _write_bytes(_REG_CONFIG_START, gt.config_buffer)
       IN  /\ events' = Append(events, Tx(rq, ok))
           /\ chip' = IF ok THEN ChipWrite(chip, rq.register, rq.n) ELSE chip
           /\ gt' = [gt EXCEPT !.pc = "config_reread"]
    /\ UNCHANGED pins
    /\ UNCHANGED <<buttonVars, loop, frame, dev, poll, bus, result>>

\* Line 274: the patched block is written back.
CheckConfigWrite(ok) ==
    /\ gt.pc = "config_write"
    /\ LET rq == _write_bytes(_REG_CONFIG_START, gt.config_buffer)
       IN  /\ events' = Append(events, Tx(rq, ok))
           /\ chip' = IF ok THEN ChipWrite(chip, rq.register, rq.n) ELSE chip
           /\ gt' = [gt EXCEPT !.pc = IF ok THEN "config_reread" ELSE "raised"]
    /\ UNCHANGED pins
    /\ UNCHANGED <<buttonVars, loop, frame, dev, poll, bus, result>>

\* Lines 277-278: the block is read again, then the constructor waits.
CheckConfigReread(ok) ==
    /\ gt.pc = "config_reread"
    /\ LET rq == _read(_REG_CONFIG_START, _REG_CONFIG_SIZE)
       IN  IF ~ok
           THEN /\ events' = Append(events, Tx(rq, ok))
                /\ gt' = [gt EXCEPT !.pc = "raised"]
           ELSE /\ events' = Append(events, Tx(rq, ok)) \o check_config_reload_wait
                /\ gt' = [gt EXCEPT !.config_buffer = ChipRead(chip, rq.register, rq.n),
                                    !.pc = "config_fresh"]
    /\ UNCHANGED <<pins, chip>>
    /\ UNCHANGED <<buttonVars, loop, frame, dev, poll, bus, result>>

\* Line 281: the reload flag is written; _check_config returns.
CheckConfigFresh(ok) ==
    /\ gt.pc = "config_fresh"
    /\ LET rq == check_config_fresh_request
       IN  /\ events' = Append(events, Tx(rq, ok))
           /\ chip' = IF ok THEN ChipWrite(chip, rq.register, rq.n) ELSE chip
           /\ gt' = [gt EXCEPT !.pc = IF ok THEN "command" ELSE "raised"]
    /\ UNCHANGED pins
    /\ UNCHANGED <<buttonVars, loop, frame, dev, poll, bus, result>>

\* Line 116: the command is written; the constructor returns the object.
WriteCommand(ok) ==
    /\ gt.pc = "command"
    /\ LET rq == command_request
       IN  /\ events' = Append(events, Tx(rq, ok))
           /\ chip' = IF ok THEN ChipWrite(chip, rq.register, rq.n) ELSE chip
           /\ gt' = [gt EXCEPT !.pc = IF ok THEN "done" ELSE "raised"]
    /\ UNCHANGED pins
    /\ UNCHANGED <<buttonVars, loop, frame, dev, poll, bus, result>>

\* The device acts on the reload flag: it applies the configuration block and
\* reports its resolution in the identity block.
DeviceReload ==
    /\ chip.fresh = 1
    /\ chip' = [chip EXCEPT !.fresh = 0,
                            !.info = IdentityBlock(<< current_width(chip.config),
                                                      current_height(chip.config) >>)]
    /\ UNCHANGED <<gt, pins, events>>
    /\ UNCHANGED <<buttonVars, loop, frame, dev, poll, bus, result>>

\* A transaction applied to the device: a read leaves it as it is.
Transact(c, rq) ==
    IF rq.kind = "read" THEN c ELSE ChipWrite(c, rq.register, rq.n)

\* Lines 137-138: the transactions of product_id.
product_id_requests == << _read(_REG_PRODUCT_ID, 11), _read(_REG_CONFIG_START, 1) >>

\* Lines 141-148: the parsed fields that make up the returned string.
product_id(self, data, config_data) ==
    [self |-> self,
     ret |-> [product_name |-> SubSeq(data, 1, 4),
              version |-> data[6] * 256 + data[5],
              vendor_id |-> data[11],
              x_resolution |-> data[8] * 256 + data[7],
              y_resolution |-> data[10] * 256 + data[9],
              config_version |-> config_data[1],
              config_printable |-> 32 <= config_data[1] /\ config_data[1] <= 126]]

\* Line 161: the transaction of configured_resolution.
configured_resolution_requests == << _read(_REG_PRODUCT_ID, 10) >>

\* Mutant of configured_resolution: the resolution stored at construction.
configured_resolution_stored(self, data) ==
    [self |-> self, ret |-> << self._width, self._height >>]

\* Lines 162-164.
configured_resolution(self, data) ==
    [self |-> self, ret |-> << data[8] * 256 + data[7], data[10] * 256 + data[9] >>]

\* One read of the property product_id; transaction number `failed` fails
\* (0: none).
ProductId(failed) ==
    /\ gt.pc = "done"
    /\ LET rqs == product_id_requests
           r == product_id(gt, ChipRead(chip, rqs[1].register, rqs[1].n),
                           ChipRead(Transact(chip, rqs[1]), rqs[2].register, rqs[2].n))
       IN  /\ bus' = [k \in 1..(IF failed = 0 THEN Len(rqs) ELSE failed) |->
                         Tx(rqs[k], k # failed)]
           /\ chip' = IF failed = 1 THEN chip
                      ELSE IF failed = 2 THEN Transact(chip, rqs[1])
                      ELSE Transact(Transact(chip, rqs[1]), rqs[2])
           /\ gt' = IF failed = 0 THEN r.self ELSE gt
           /\ result' = IF failed = 0 THEN Returned(r.ret) ELSE Raised("OSError")
    /\ UNCHANGED <<pins, events>>
    /\ UNCHANGED <<buttonVars, loop, frame, dev, poll>>

\* One read of the property configured_resolution.
ConfiguredResolution(failed) ==
    /\ gt.pc = "done"
    /\ LET rqs == configured_resolution_requests
           r == configured_resolution(gt, ChipRead(chip, rqs[1].register, rqs[1].n))
       IN  /\ bus' = << Tx(rqs[1], failed = 0) >>
           /\ chip' = IF failed = 0 THEN Transact(chip, rqs[1]) ELSE chip
           /\ gt' = IF failed = 0 THEN r.self ELSE gt
           /\ result' = IF failed = 0 THEN Returned(r.ret) ELSE Raised("OSError")
    /\ UNCHANGED <<pins, events>>
    /\ UNCHANGED <<buttonVars, loop, frame, dev, poll>>

NextController ==
    \/ \E address \in AddressArgs, res \in RequestedResolutions,
          reset_pin \in {"None", "DigitalInOut"}, int_pin \in {"None", "DigitalInOut"},
          use_secondary_i2c_address \in BOOLEAN :
            Construct(address, res[1], res[2], reset_pin, int_pin, use_secondary_i2c_address)
    \/ \E ok \in BOOLEAN : CheckConfigRead(ok)
    \/ \E ok \in BOOLEAN : CheckConfigWrite(ok)
    \/ \E ok \in BOOLEAN : CheckConfigReread(ok)
    \/ \E ok \in BOOLEAN : CheckConfigFresh(ok)
    \/ \E ok \in BOOLEAN : WriteCommand(ok)
    \/ DeviceReload
    \/ \E failed \in 0..2 : ProductId(failed)
    \/ \E failed \in 0..1 : ConfiguredResolution(failed)

InitController ==
    /\ buttons = <<>>
    /\ buzzer = Buzzer
    /\ now = 0
    /\ touches = <<>>
    /\ op = "init"
    /\ ret = FALSE
    /\ tones = 0
    /\ prev = <<>>
    /\ ep = EpIdle
    /\ presses = 0
    /\ dev = [status |-> 0, blocks |-> BlocksA]
    /\ frame = FrameNone
    /\ poll = PollIdle
    /\ bus = <<>>
    /\ result = [kind |-> "none", value |-> <<>>]
    /\ InitCtl
    /\ loop = [pc |-> "none"]

\* Construction of a GT911 object against a device and a transport whose
\* transactions may fail, then reads of its two properties.
SpecController == InitController /\ [][NextController]_vars

(***************************************************************************)
(* code.py: the six buttons and the main loop.                             *)
(***************************************************************************)
\* Lines 55-63: the latching entry of each button_config item.
button_config == << "True", "True", "False", "False", "False", "False" >>

\* Line 70 and 71: x = col * 80, y = row * 80.
GridPitch == 80

\* Lines 66-73: the list of buttons, all handed the one buzzer.
LayoutButtons ==
    [k \in 1..Len(button_config) |->
        Button(((k - 1) % 2) * GridPitch, ((k - 1) \div 2) * GridPitch,
               button_config[k], "buzzer", DEBOUNCE_DELAY_DEFAULT)]

\* Samples gt.touches returns in the loop: no touch, a touch inside button 1,
\* a touch inside button 3, both, and a touch on the corner (80, 80).
LoopSamples ==
    { <<>>,
      << <<40, 40, 5>> >>,
      << <<40, 120, 5>> >>,
      << <<40, 40, 5>>, <<40, 120, 5>> >>,
      << <<80, 80, 5>> >> }

\* Duration of one iteration (ms): the sleep of line 88 and the work before it.
LoopSteps == {50, 160}

\* The clock value up to which iterations are followed.
MaxLoopTime == 420

\* Mutant of next_button: every second button is left out.
next_button_skip(i) == i + 2

\* Line 81: the for loop goes on with the next element of the list.
next_button(i) == i + 1

\* The record of one call made by the loop.
LoopCall(call, button, sample) == [call |-> call, button |-> button, sample |-> sample]

InitLoop ==
    /\ buttons = LayoutButtons
    /\ buzzer = Buzzer
    /\ now = 0
    /\ touches = <<>>
    /\ op = "init"
    /\ ret = FALSE
    /\ tones = 0
    /\ prev = buttons
    /\ ep = EpIdle
    /\ presses = 0
    /\ dev = [status |-> 0, blocks |-> BlocksA]
    /\ frame = FrameNone
    /\ poll = PollIdle
    /\ bus = <<>>
    /\ result = [kind |-> "none", value |-> <<>>]
    /\ gt = [pc |-> "done"]
    /\ pins = <<>>
    /\ chip = <<>>
    /\ events = <<>>
    /\ loop = [pc |-> "touches", i |-> 1, calls |-> <<>>]

\* Line 80: touches = gt.touches returns a sample.
LoopTouches(sample) ==
    /\ loop.pc = "touches"
    /\ touches' = sample
    /\ loop' = [pc |-> IF Len(buttons) >= 1 THEN "is_pressed" ELSE "sleep", i |-> 1,
                calls |-> << LoopCall("touches", 0, sample) >>]
    /\ op' = "touches"
    /\ UNCHANGED <<buttons, buzzer, now, ret, tones, prev, ep, presses>>
    /\ UNCHANGED <<dev, frame, poll, bus, result, ctlVars>>

\* Line 80: gt.touches raises; nothing catches it and the program ends.
LoopTouchesRaises ==
    /\ loop.pc = "touches"
    /\ loop' = [pc |-> "raised", i |-> 1, calls |-> << LoopCall("touches", 0, <<>>) >>]
    /\ op' = "touches"
    /\ UNCHANGED <<buttons, buzzer, now, touches, ret, tones, prev, ep, presses>>
    /\ UNCHANGED <<dev, frame, poll, bus, result, ctlVars>>

\* Lines 81-86: button.is_pressed(touches) on the next button of the list.
LoopIsPressed ==
    /\ loop.pc = "is_pressed"
    /\ LET i == loop.i
           r == is_pressed(buttons[i], touches, now)
       IN  /\ buttons' = [buttons EXCEPT ![i] = r.self]
           /\ buzzer' = IF r.calls # <<>>
                            THEN play_tone(buzzer, r.calls[1][1], r.calls[1][2])
                            ELSE buzzer
           /\ ret' = r.ret
           /\ tones' = Len(r.calls)
           /\ loop' = [loop EXCEPT
                          !.i = next_button(i),
                          !.pc = IF next_button(i) <= Len(buttons) THEN "is_pressed" ELSE "sleep",
                          !.calls = Append(@, LoopCall("is_pressed", i, touches))]
    /\ prev' = buttons
    /\ op' = "tick"
    /\ UNCHANGED <<now, touches, ep, presses>>
    /\ UNCHANGED <<dev, frame, poll, bus, result, ctlVars>>

\* Line 88 and the return to line 76: the iteration ends, the clock has
\* advanced by dt when the next one starts.
LoopSleep(dt) ==
    /\ loop.pc = "sleep"
    /\ now + dt <= MaxLoopTime
    /\ now' = now + dt
    /\ loop' = [loop EXCEPT !.pc = "touches"]
    /\ op' = "sleep"
    /\ UNCHANGED <<buttons, buzzer, touches, ret, tones, prev, ep, presses>>
    /\ UNCHANGED <<dev, frame, poll, bus, result, ctlVars>>

NextLoop ==
    \/ \E sample \in LoopSamples : LoopTouches(sample)
    \/ LoopTouchesRaises
    \/ LoopIsPressed
    \/ \E dt \in LoopSteps : LoopSleep(dt)

\* The program of code.py after its setup: the main loop over the six buttons.
SpecLoop == InitLoop /\ [][NextLoop]_vars

(***************************************************************************)
(* Claims about one button.  Btn is the button after the last operation,   *)
(* Pre the same button before it.                                          *)
(***************************************************************************)
Btn == buttons[1]
Pre == prev[1]
IsTick == op = "tick"
IsSet == op \in {"set_true", "set_false"}
Latch == Truthy(Btn._latching)

\* Whether a point of the sample handed to the last tick lies in the button.
SampleTouches ==
    \E k \in DOMAIN touches :
        /\ Btn._x <= touches[k][1] /\ touches[k][1] <= Btn._x + 80
        /\ Btn._y <= touches[k][2] /\ touches[k][2] <= Btn._y + 80

\* The clock value of the last tick minus the timestamp held before it.
Elapsed == now - Pre._last_touch_time

\* C1: a tick returns true if and only if the state before the tick is
\* DEBOUNCED or INDICATOR_DEBOUNCED and no point of the supplied sample lies
\* in the button; in every other combination it returns false.
C1_ReturnsTrueIff ==
    IsTick =>
        (ret <=> ( /\ Pre._state \in {STATE_DEBOUNCED, STATE_INDICATOR_DEBOUNCED}
                   /\ ~SampleTouches ))

\* A tick that returned true from INDICATOR_DEBOUNCED.
C1_Witness ==
    /\ IsTick /\ ret
    /\ Pre._state = STATE_INDICATOR_DEBOUNCED
    /\ touches = << <<200, 200, 5>> >>

\* The states an episode that started in state s passes through.
PressedOf(s) == IF s = STATE_NORMAL THEN STATE_PRESSED ELSE STATE_INDICATOR_PRESSED
DebouncedOf(s) == IF s = STATE_NORMAL THEN STATE_DEBOUNCED ELSE STATE_INDICATOR_DEBOUNCED
ConfirmedOf(s) == IF s = STATE_NORMAL /\ Latch THEN STATE_INDICATOR ELSE STATE_NORMAL

\* Time between the first and the latest touched tick of the episode.
Held == ep.last - ep.t0

\* C2: when the button, resting in NORMAL or INDICATOR, is touched on ticks
\* spanning at least debounceDelayMs + 1 ms and then released, exactly one tick
\* of the episode returns true and it is the release tick; while the touch is
\* held the state is PRESSED up to the delay and DEBOUNCED beyond it, and the
\* release leaves NORMAL (non-latch) or INDICATOR (latch).
C2_DebounceConfirmation ==
    /\ ep.phase \in {"held", "released"} => ep.from \in {STATE_NORMAL, STATE_INDICATOR}
    /\ ep.phase = "held" =>
          /\ ~ret /\ ep.trues = 0
          /\ Held <= Btn._debounce_delay => Btn._state = PressedOf(ep.from)
          /\ Held >= Btn._debounce_delay + 1 => Btn._state = DebouncedOf(ep.from)
    /\ (ep.phase = "released" /\ Held >= Btn._debounce_delay + 1) =>
          /\ ret /\ ep.trues = 1
          /\ Btn._state = ConfirmedOf(ep.from)

\* The scenario: geometry (0,0,80), delay 150, touched at t=0 and t=160,
\* released at t=200, on a latching button.
C2_Witness ==
    /\ Btn._x = 0 /\ Btn._y = 0 /\ Btn._debounce_delay = 150
    /\ ep.phase = "released" /\ ep.from = STATE_NORMAL
    /\ ep.t0 = 0 /\ ep.last = 160 /\ now = 200
    /\ ret /\ Latch /\ Btn._state = STATE_INDICATOR

\* C3: when the touch is held for at most debounceDelayMs - 1 ms after the
\* first touched tick and then released, no tick of the episode returns true
\* and the state after the release tick is the state the episode started from.
C3_DebounceRejection ==
    (ep.phase = "released" /\ Held <= Btn._debounce_delay - 1) =>
        /\ ~ret /\ ep.trues = 0
        /\ Btn._state = ep.from

\* A touch of 149 ms on a latched-on button, released.
C3_Witness ==
    /\ ep.phase = "released" /\ Held = 149
    /\ ep.from = STATE_INDICATOR /\ Btn._state = STATE_INDICATOR

\* A release that confirms a press: the touch was held beyond the delay.
ConfirmingRelease == ep.phase = "released" /\ Held > Btn._debounce_delay

\* C4: on a latch-capable button starting in NORMAL, the indicator reads false
\* before the first confirming release, true after it and false after the
\* second, and the only ticks that return true are confirming release ticks.
C4_LatchCycle ==
    Latch =>
        /\ presses = 0 => ~indicator(Btn)
        /\ presses = 1 => indicator(Btn)
        /\ presses = 2 => ~indicator(Btn)
        /\ (IsTick /\ ret) => ConfirmingRelease

\* The second confirming release of a latch-capable button.
C4_Witness ==
    /\ Latch /\ presses = 2 /\ IsTick /\ ret
    /\ Pre._state = STATE_INDICATOR_DEBOUNCED /\ ~indicator(Btn)

\* C5: the indicator of a button constructed with latching False or None reads
\* false after every sequence of ticks and indicator assignments.
C5_NonLatchInvariant ==
    Btn._latching \in {"False", "None"} =>
        /\ ~indicator(Btn)
        /\ Btn._state \notin {STATE_INDICATOR, STATE_INDICATOR_PRESSED,
                              STATE_INDICATOR_DEBOUNCED}

\* indicator = True assigned to a non-latching button that has been pressed.
C5_Witness ==
    /\ Btn._latching = "None" /\ op = "set_true" /\ presses >= 1
    /\ ~indicator(Btn)

\* The transition table of the specification.
TableNext(s, touched, elapsed, delay, latch) ==
    CASE s = STATE_NORMAL -> IF touched THEN STATE_PRESSED ELSE STATE_NORMAL
      [] s = STATE_PRESSED ->
            IF ~touched THEN STATE_NORMAL
            ELSE IF elapsed > delay THEN STATE_DEBOUNCED ELSE STATE_PRESSED
      [] s = STATE_DEBOUNCED ->
            IF touched THEN STATE_DEBOUNCED
            ELSE IF latch THEN STATE_INDICATOR ELSE STATE_NORMAL
      [] s = STATE_INDICATOR -> IF touched THEN STATE_INDICATOR_PRESSED ELSE STATE_INDICATOR
      [] s = STATE_INDICATOR_PRESSED ->
            IF ~touched THEN STATE_INDICATOR
            ELSE IF elapsed > delay THEN STATE_INDICATOR_DEBOUNCED
                 ELSE STATE_INDICATOR_PRESSED
      [] s = STATE_INDICATOR_DEBOUNCED ->
            IF touched THEN STATE_INDICATOR_DEBOUNCED ELSE STATE_NORMAL

\* C6: for every state, touched value, elapsed time and latchCapable flag the
\* state after a tick is the one the transition table gives.
C6_TransitionTable ==
    IsTick =>
        Btn._state = TableNext(Pre._state, SampleTouches, Elapsed,
                               Pre._debounce_delay, Truthy(Pre._latching))

\* A touched tick in PRESSED with elapsed equal to the delay: the state stays.
C6_Witness ==
    /\ IsTick /\ Pre._state = STATE_PRESSED /\ SampleTouches
    /\ Elapsed = 150 /\ Btn._state = STATE_PRESSED

\* A tick that confirms the debounce.
ConfirmingTransition ==
    \/ Pre._state = STATE_PRESSED /\ Btn._state = STATE_DEBOUNCED
    \/ Pre._state = STATE_INDICATOR_PRESSED /\ Btn._state = STATE_INDICATOR_DEBOUNCED

\* C7 as stated: the tone fires exactly once on each confirming transition
\* and on no other tick.
C7_ToneOnEveryConfirmation ==
    IsTick => tones = (IF ConfirmingTransition THEN 1 ELSE 0)

\* C7: on a button constructed with a buzzer the tone fires exactly once on
\* each confirming transition and on no other tick; on a button without a
\* buzzer it never fires.  It never fires on a tick that returns true, nor
\* while a touch stays held in DEBOUNCED or INDICATOR_DEBOUNCED.
C7_ToneFiring ==
    /\ IsTick =>
          tones = (IF ConfirmingTransition /\ Btn._buzzer # "None" THEN 1 ELSE 0)
    /\ (IsTick /\ ret) => tones = 0
    /\ (IsTick /\ Pre._state \in {STATE_DEBOUNCED, STATE_INDICATOR_DEBOUNCED}) => tones = 0
    /\ buzzer.is_playing = FALSE

\* The tone of the transition INDICATOR_PRESSED -> INDICATOR_DEBOUNCED.
C7_Witness ==
    /\ IsTick /\ tones = 1 /\ ~ret
    /\ Pre._state = STATE_INDICATOR_PRESSED
    /\ Btn._state = STATE_INDICATOR_DEBOUNCED
    /\ buzzer.frequency = 1760

\* C8: an indicator assignment on a latch-capable button forces INDICATOR with
\* icon INDICATOR (true) or NORMAL with icon NORMAL (false) from any state,
\* returns no press and fires no tone; on a non-latching button it changes
\* nothing.
C8_IndicatorSet ==
    IsSet =>
        /\ ~ret /\ tones = 0
        /\ Latch /\ op = "set_true" =>
              Btn = [Pre EXCEPT !._state = STATE_INDICATOR, !.icon = ICON_INDICATOR]
        /\ Latch /\ op = "set_false" =>
              Btn = [Pre EXCEPT !._state = STATE_NORMAL, !.icon = ICON_NORMAL]
        /\ ~Latch => Btn = Pre

\* indicator = False assigned in mid-debounce, in state INDICATOR_DEBOUNCED.
C8_Witness ==
    /\ op = "set_false" /\ Latch
    /\ Pre._state = STATE_INDICATOR_DEBOUNCED /\ Pre.icon = ICON_INDICATOR_PRESSED
    /\ Btn._state = STATE_NORMAL /\ Btn.icon = ICON_NORMAL

\* C9: the touched input is true if and only if at least one point of the
\* sample lies in [x, x+size] x [y, y+size], all four edges inclusive; an
\* empty sample gives false and the size field of a point has no influence.
C9_CheckTouch ==
    op = "check" =>
        /\ ret <=> (\E k \in DOMAIN touches :
                       /\ Btn._x <= touches[k][1] /\ touches[k][1] <= Btn._x + 80
                       /\ Btn._y <= touches[k][2] /\ touches[k][2] <= Btn._y + 80)
        /\ touches = <<>> => ~ret

\* A sample whose second point lies on the far corner of the button at (80,80).
C9_Witness ==
    /\ op = "check" /\ ret
    /\ Btn._x = 80 /\ Btn._y = 80
    /\ touches = << <<161, 161, 5>>, <<160, 160, 0>> >>

(***************************************************************************)
(* Claims about GT911.touches.                                             *)
(***************************************************************************)
\* A call of GT911.touches has ended, by a return or by an exception.
CallEnded == poll.pc = "idle" /\ result.kind \in {"returned", "raised"}

\* The positions in the bus log of the completed writes of 0x00 to the status
\* register.
StatusClears ==
    { k \in DOMAIN bus :
        /\ bus[k].kind = "write" /\ bus[k].register = 33102
        /\ bus[k].n = 0 /\ bus[k].ok }

\* The status register is cleared exactly once, by the last transaction of the
\* call, after the status read and every point-block read.
ClearedOnceAtEnd ==
    /\ Cardinality(StatusClears) = 1
    /\ Len(bus) \in StatusClears
    /\ bus[1].kind = "read" /\ bus[1].register = 33102
    /\ \A k \in 1..(Len(bus) - 1) : bus[k].kind = "read"

\* C10 as stated: every call of poll clears the status register exactly once,
\* after the status read and all point-block reads.
C10_EveryCallClearsOnce ==
    CallEnded => ClearedOnceAtEnd

\* C10: every call of poll that returns a sample has written 0x00 to the
\* status register exactly once, whether the data-ready bit was set or not,
\* and that write comes after the status read and after all point-block
\* reads of the call; a call that ends in an exception has not completed the
\* write, and no call writes the register before its last transaction.
C10_ClearsOnceBeforeReturn ==
    /\ result.kind = "returned" => ClearedOnceAtEnd
    /\ result.kind = "raised" => StatusClears = {}
    /\ result.kind = "pending" => StatusClears = {}

\* A call that found the data-ready bit unset and still cleared the register.
C10_Witness ==
    /\ result.kind = "returned"
    /\ poll.touch_status = 5
    /\ Len(bus) = 2 /\ bus[2].kind = "write" /\ bus[2].ok

\* The bus log without its first and last transaction: the point-block reads
\* of a call that returned.
PointReads == SubSeq(bus, 2, Len(bus) - 1)

\* The points the device holds in block k (counted from 0), in either of its
\* two memory contents, as (x, y, size).
BlockPoints(k) == { <<10 + k, 20 + k, 5>>, <<300 + k, 239 - k, 260>> }

\* C11: a call of poll that returns has returned between 0 and 5 points.  When
\* bit 7 of the status byte was set and its low four bits gave n in 0..5, the
\* call read exactly the n point blocks at base + 8*i, i = 0..n-1, in
\* ascending order, and returned n points in that order, point i decoded from
\* block i.  When bit 7 was unset it read no point block and returned the
\* empty sample, whatever the low four bits were.
C11_ReadsCountBlocks ==
    result.kind = "returned" =>
        LET st == poll.touch_status
            n == IF st >= 128 THEN st % 16 ELSE 0
        IN  /\ n <= 5
            /\ Len(result.value) = n
            /\ Len(PointReads) = n
            /\ \A i \in 0..(n - 1) :
                  /\ PointReads[i + 1] =
                        [kind |-> "read", register |-> 33103 + 8 * i, n |-> 8, ok |-> TRUE]
                  /\ result.value[i + 1] \in BlockPoints(i)
            /\ bus[1] = [kind |-> "read", register |-> 33102, n |-> 1, ok |-> TRUE]
            /\ bus[Len(bus)].kind = "write"

\* A call that returned five points, the device having posted new point data
\* between the read of the first and the read of the last block.
C11_Witness ==
    /\ result.kind = "returned"
    /\ poll.touch_status = 133
    /\ Len(result.value) = 5
    /\ result.value[1] = <<10, 20, 5>>
    /\ result.value[5] = <<304, 235, 260>>

\* The positions in the bus log of the transactions that failed.
Failed == { k \in DOMAIN bus : ~bus[k].ok }

\* C12: when a transport transaction inside poll fails (the status read, a
\* point-block read or the status clear), the call ends there with the
\* transport's error: no sample is returned, the failed transaction is the
\* last one of the call (it is not retried and nothing follows it), and a
\* call still running or returned has no failed transaction.
C12_FailurePropagates ==
    /\ Failed # {} =>
          /\ Failed = {Len(bus)}
          /\ poll.pc = "idle"
          /\ result = [kind |-> "raised", value |-> "OSError"]
    /\ result.kind \in {"pending", "returned"} => Failed = {}

\* The read of the second point block failed after the first point had been
\* decoded.
C12_Witness ==
    /\ result.kind = "raised"
    /\ Len(bus) = 3 /\ bus[3].kind = "read" /\ ~bus[3].ok
    /\ poll.touch_data[1] # <<>>

(***************************************************************************)
(* Claims about the GT911 constructor and its properties.                  *)
(***************************************************************************)
IsTransport(e) == e.kind \in {"read", "write", "write_bytes"}

\* The transport transactions of the constructor, in order.
TransportOps == SelectSeq(events, IsTransport)

\* The resolution the device held before the constructor ran.
FactoryResolution ==
    << chip.factory[2] + 256 * chip.factory[3], chip.factory[4] + 256 * chip.factory[5] >>

Requested == << gt._width, gt._height >>

\* The sum of data[lo..hi].
RECURSIVE Total(_, _, _)
Total(data, lo, hi) ==
    IF lo > hi THEN 0
    ELSE IF hi - lo < 8 THEN data[lo] + Total(data, lo + 1, hi)
    ELSE Total(data, lo, lo + 7) + Total(data, lo + 8, hi)

\* C13: whatever the 185-byte configuration block held and whatever width and
\* height were requested, the block the constructor writes back has 185
\* bytes, carries the requested width and height in its resolution fields
\* (little-endian 16 bit, offsets 1..4), and the sum of its bytes 0..183 plus
\* its checksum byte 184 is 0 modulo 256.
C13_ChecksumRoundTrip ==
    \A k \in DOMAIN events :
        events[k].kind = "write_bytes" =>
            LET data == events[k].n
            IN  /\ events[k].register = 32839
                /\ Len(data) = 185
                /\ \A j \in 1..185 : data[j] \in 0..255
                /\ data[2] + 256 * data[3] = gt._width
                /\ data[4] + 256 * data[5] = gt._height
                /\ (Total(data, 1, 184) + data[185]) % 256 = 0

\* A block of 0xFF bytes was patched to 800 x 480 and written back; its
\* checksum byte is neither 0 nor the old one.
C13_Witness ==
    \E k \in DOMAIN events :
        /\ events[k].kind = "write_bytes" /\ events[k].ok
        /\ events[k].n[1] = 255 /\ events[k].n[185] \notin {0, 255}
        /\ gt._width = 800 /\ FactoryResolution = <<320, 240>>

ConfigRead == [kind |-> "read", register |-> 32839, n |-> 185, ok |-> TRUE]
ReloadWrite == [kind |-> "write", register |-> 33024, n |-> 1, ok |-> TRUE]
CommandWrite == [kind |-> "write", register |-> 32832, n |-> 0, ok |-> TRUE]

\* C14: when the constructor succeeds on a device whose resolution differed
\* from the requested one, its transport operations are, in this order: the
\* read of the 185-byte configuration block, the write of the patched block,
\* the re-read of the block, the write of 0x01 to the reload-flag register,
\* the write of 0x00 to the command register.  The command is written once
\* and nothing follows it.
C14_PatchOrder ==
    (gt.pc = "done" /\ FactoryResolution # Requested) =>
        LET ops == TransportOps
        IN  /\ Len(ops) = 5
            /\ ops[1] = ConfigRead
            /\ ops[2].kind = "write_bytes" /\ ops[2].register = 32839 /\ ops[2].ok
            /\ ops[2].n = chip.config
            /\ ops[3] = ConfigRead
            /\ ops[4] = ReloadWrite
            /\ ops[5] = CommandWrite
            /\ events[Len(events)] = CommandWrite

\* A constructor that requested 320 x 240 from a device set to 320 x 480 has
\* returned.
C14_Witness ==
    /\ gt.pc = "done"
    /\ Requested = <<320, 240>> /\ FactoryResolution = <<320, 480>>
    /\ Len(TransportOps) = 5

\* The writes among the constructor's transport operations.
IsWrite(e) == e.kind \in {"write", "write_bytes"}
Writes == SelectSeq(events, IsWrite)

\* C15: when the device's resolution already equals the requested one, the
\* constructor writes neither the configuration block nor the reload flag:
\* the device's block and flag stay as they were, the only write it ever
\* attempts is the 0x00 command, and a constructor that returned has made
\* exactly that one write, after one read of the block.
C15_NoPatchNoWrite ==
    (gt.pc # "new" /\ FactoryResolution = Requested) =>
        /\ \A k \in DOMAIN Writes :
              /\ Writes[k].kind = "write"
              /\ Writes[k].register = 32832 /\ Writes[k].n = 0
        /\ chip.config = chip.factory
        /\ chip.fresh = 0
        /\ gt.pc = "done" => TransportOps = << ConfigRead, CommandWrite >>

\* A constructor that found the requested 800 x 480 in the device has returned.
C15_Witness ==
    /\ gt.pc = "done"
    /\ Requested = <<800, 480>> /\ FactoryResolution = <<800, 480>>
    /\ Writes = << CommandWrite >>

\* The positions in the constructor's events of the write of the reload flag
\* and of the write of the command.
ReloadAt == { k \in DOMAIN events : events[k] = ReloadWrite }
CommandAt == { k \in DOMAIN events : events[k] = CommandWrite }

\* C16 as stated: after a configuration patch a wait lies between the write of
\* 0x01 to the reload-flag register and the write of 0x00 to the command
\* register.
C16_WaitAfterReloadFlag ==
    \A r \in ReloadAt : \A c \in CommandAt :
        \E w \in DOMAIN events : r < w /\ w < c /\ events[w].kind = "sleep"

\* C16: after a configuration patch the constructor re-reads the block, waits
\* one second and only then writes 0x01 to the reload-flag register; the
\* write of 0x00 to the command register is its next operation, with no wait
\* between the two writes.
C16_WaitBeforeReloadFlag ==
    \A r \in ReloadAt :
        /\ r >= 3
        /\ events[r - 1] = [kind |-> "sleep", us |-> 1000000]
        /\ events[r - 2] = ConfigRead
        /\ \A c \in CommandAt : c = r + 1

\* A constructor that patched the configuration has returned.
C16_Witness ==
    /\ gt.pc = "done"
    /\ ReloadAt # {} /\ CommandAt # {}

\* The positions in the constructor's events of the transactions that failed.
FailedOps == { k \in DOMAIN events : IsTransport(events[k]) /\ ~events[k].ok }

\* C17: when a transport transaction of the constructor fails (the read of the
\* configuration, its write, its re-read, the write of the reload flag or the
\* write of the command), the constructor ends there with the failure: the
\* failed transaction is its last event (it is not retried and no transport
\* operation follows, so a failure before the command leaves the command
\* unwritten), no object is returned and so no property of it is ever read;
\* a constructor that is running or has returned has had no failure.
C17_InitAborts ==
    /\ FailedOps # {} =>
          /\ FailedOps = {Len(events)}
          /\ gt.pc = "raised"
          /\ CommandAt = {}
          /\ bus = << >> /\ result.kind = "none"
    /\ gt.pc = "raised" => FailedOps # {}

\* The re-read of the patched block failed.
C17_Witness ==
    /\ gt.pc = "raised"
    /\ Len(TransportOps) = 3
    /\ TransportOps[3].kind = "read" /\ ~TransportOps[3].ok
    /\ TransportOps[2].ok

\* The positions in the constructor's events of the operations that set the
\* level of the reset line, and the levels in order.
IsResetLevel(e) == e.kind = "pin" /\ e.pin = "reset" /\ e.act \in {"output", "value"}
ResetLevels == [k \in DOMAIN SelectSeq(events, IsResetLevel) |->
                    SelectSeq(events, IsResetLevel)[k].value]
ResetLowAt == { k \in DOMAIN events : IsResetLevel(events[k]) /\ ~events[k].value }
ResetHighAt == { k \in DOMAIN events : IsResetLevel(events[k]) /\ events[k].value }
SelectDrivenAt ==
    { k \in DOMAIN events :
        events[k].kind = "pin" /\ events[k].pin = "int" /\ events[k].act = "output" }
SelectInputAt ==
    { k \in DOMAIN events :
        events[k].kind = "pin" /\ events[k].pin = "int" /\ events[k].act = "input" }
PinAt == { k \in DOMAIN events : events[k].kind = "pin" }
BusAt == { k \in DOMAIN events : events[k].kind = "open" \/ IsTransport(events[k]) }

Max(S) == CHOOSE m \in S : \A k \in S : k <= m

\* The reset sequence apart from the number of pulses: the reset line starts
\* high and ends high after a last low phase; the interrupt line, when there
\* is one, is driven once, during that last low phase, to the level of
\* use_secondary_i2c_address (high selects 0x14), and is switched to input
\* after the release of reset; without an interrupt line nothing is done to
\* it; every pin operation precedes the opening of the session and every
\* transport operation.
ResetSequenceShape ==
    /\ ResetLowAt # {} /\ ResetHighAt # {}
    /\ ResetLevels[1] = TRUE
    /\ Max(ResetLowAt) < Max(ResetHighAt)
    /\ pins.reset = [direction |-> "output", value |-> TRUE, drive_mode |-> "PUSH_PULL"]
    /\ IF gt._interrupt # "None"
       THEN /\ Cardinality(SelectDrivenAt) = 1
            /\ \A d \in SelectDrivenAt :
                  /\ Max(ResetLowAt) < d /\ d < Max(ResetHighAt)
                  /\ events[d].value = gt.use_secondary_i2c_address
            /\ Cardinality(SelectInputAt) = 1
            /\ \A i \in SelectInputAt : Max(ResetHighAt) < i /\ i = Max(PinAt)
            /\ pins.int.direction = "input"
       ELSE SelectDrivenAt = {} /\ SelectInputAt = {}
    /\ \A k \in PinAt : \A b \in BusAt : k < b

\* C18 as stated: with a reset line, the pulse is high, low, select the
\* address, high, input; the reset line's levels are exactly high, low, high.
C18_SinglePulse ==
    (gt.pc # "new" /\ gt._reset # "None") =>
        /\ ResetSequenceShape
        /\ ResetLevels = << TRUE, FALSE, TRUE >>

\* C18: with a reset line, the reset line is driven high, then low; the
\* interrupt line, if present, is driven to the level encoding the requested
\* address while reset is low; then reset is released high and the interrupt
\* line is switched to input, all before the first transport operation.  The
\* reset line's levels are exactly high, low, high without an interrupt line
\* and high, low, high, low, high with one: a brief preparatory pulse
\* precedes the main one.
C18_ResetPulse ==
    (gt.pc # "new" /\ gt._reset # "None") =>
        /\ ResetSequenceShape
        /\ ResetLevels = IF gt._interrupt # "None"
                             THEN << TRUE, FALSE, TRUE, FALSE, TRUE >>
                             ELSE << TRUE, FALSE, TRUE >>

\* A constructor with both lines and the secondary address has done its reset
\* and gone on to the transport.
C18_Witness ==
    /\ gt._reset # "None" /\ gt._interrupt # "None"
    /\ gt.use_secondary_i2c_address
    /\ Len(ResetLevels) = 5
    /\ TransportOps # << >>

\* The address the constructor has to open the session at.
ExpectedAddress ==
    IF gt.address # << >> THEN gt.address[1]
    ELSE IF gt._reset # "None" /\ gt._interrupt # "None" /\ gt.use_secondary_i2c_address
    THEN 20
    ELSE 93

OpenAt == { k \in DOMAIN events : events[k].kind = "open" }

\* C19: the transport session is opened once, before any transaction, at the
\* explicit address when one was given, otherwise at 0x14 exactly when both
\* the reset and the interrupt line are present and use_secondary_i2c_address
\* is true, and at 0x5D in every other case; so without an explicit address
\* it is the address encoded by the level driven on the interrupt line during
\* the reset, whenever a level was driven.
C19_ResolvedAddress ==
    gt.pc # "new" =>
        /\ Cardinality(OpenAt) = 1
        /\ \A o \in OpenAt :
              /\ events[o].address = ExpectedAddress
              /\ \A k \in DOMAIN events : IsTransport(events[k]) => o < k
        /\ gt.i2c_device = << ExpectedAddress >>
        /\ gt.address = << >> =>
              \A d \in SelectDrivenAt :
                  gt.i2c_device = << IF events[d].value THEN 20 ELSE 93 >>

\* Without an explicit address, with both lines and the secondary address
\* requested, the session was opened at 0x14.
C19_Witness ==
    /\ gt.pc # "new"
    /\ gt.address = << >>
    /\ gt._reset # "None" /\ gt._interrupt # "None" /\ gt.use_secondary_i2c_address
    /\ gt.i2c_device = << 20 >>

\* The transactions of a read of product_id and of configured_resolution
\* that met no failure.
IdentityRead(length) == [kind |-> "read", register |-> 33088, n |-> length, ok |-> TRUE]
ProductIdReads == << IdentityRead(11), [kind |-> "read", register |-> 32839, n |-> 1, ok |-> TRUE] >>
ResolutionReads == << IdentityRead(10) >>

\* The resolution in the device's identity block.
ReportedResolution ==
    << chip.info[7] + 256 * chip.info[8], chip.info[9] + 256 * chip.info[10] >>

\* A step that is a read of one of the two properties.
PropertyRead == bus' # bus \/ result' # result

\* C20: product_id and configured_resolution are pure reads.  A read of
\* either issues read transactions only (the 11-byte identity block and one
\* configuration byte; the first 10 bytes of the identity block), writes no
\* device register, not even the status clear, and changes no field of the
\* GT911 object and no line; configured_resolution returns the resolution
\* the device reports at that moment, read anew by every call, not the width
\* and height stored at construction.
C20_PureReads ==
    [][ PropertyRead =>
          /\ gt' = gt /\ chip' = chip /\ pins' = pins /\ dev' = dev
          /\ \A k \in DOMAIN bus' : bus'[k].kind = "read"
          /\ \/ bus' = ProductIdReads /\ result'.kind = "returned"
             \/ bus' = ResolutionReads /\ result' = Returned(ReportedResolution)
             \/ /\ result' = Raised("OSError")
                /\ ~bus'[Len(bus')].ok
                /\ \/ bus' = << [ResolutionReads[1] EXCEPT !.ok = FALSE] >>
                   \/ bus' = << [ProductIdReads[1] EXCEPT !.ok = FALSE] >>
                   \/ bus' = << ProductIdReads[1], [ProductIdReads[2] EXCEPT !.ok = FALSE] >>
      ]_vars

\* configured_resolution returned a resolution that is not the one stored at
\* construction: the device has not taken over the patched configuration.
C20_Witness ==
    /\ bus = ResolutionReads
    /\ result.kind = "returned"
    /\ result.value # << gt._width, gt._height >>
    /\ result.value = ReportedResolution

(***************************************************************************)
(* Claims about the main loop and its six buttons.                         *)
(***************************************************************************)
\* The calls of a complete iteration: gt.touches once, then is_pressed on
\* buttons 1..6 in list order, each with the sample gt.touches returned.
IterationCalls(sample) ==
    [k \in 1..7 |-> IF k = 1 THEN [call |-> "touches", button |-> 0, sample |-> sample]
                              ELSE [call |-> "is_pressed", button |-> k - 1, sample |-> sample]]

\* C21: each iteration of the main loop calls gt.touches exactly once and then
\* is_pressed exactly once on every button, in list order, all with the
\* sample that one call returned: while the buttons are being ticked the
\* calls made so far are a prefix of that sequence, at the end of the
\* iteration they are the whole sequence, so no button is ticked twice or
\* skipped and gt.touches is not called between two ticks.  An iteration
\* whose gt.touches raises ticks no button; the program ends there.
C21_OnePollThenEveryButton ==
    /\ loop.pc = "is_pressed" =>
          /\ Len(loop.calls) = loop.i /\ loop.i <= 6
          /\ loop.calls = SubSeq(IterationCalls(touches), 1, loop.i)
    /\ loop.pc = "sleep" => loop.calls = IterationCalls(touches)
    /\ (loop.pc = "touches" /\ loop.calls # << >>) => loop.calls = IterationCalls(touches)
    /\ loop.pc = "raised" => Len(loop.calls) = 1 /\ loop.calls[1].call = "touches"

\* An iteration with a touch on the corner (80, 80) has ticked all six
\* buttons; the fourth has seen the touch.
C21_Witness ==
    /\ loop.pc = "sleep"
    /\ Len(loop.calls) = 7
    /\ touches = << <<80, 80, 5>> >>
    /\ buttons[4]._state = STATE_PRESSED

(***************************************************************************)
(* Claims about GT911.touches and the device posting frames.               *)
(***************************************************************************)
\* C22: the device can post a new frame between the status read of a call of
\* poll and its status clear, and that frame is lost.  Whenever a frame is
\* waiting unread in the status register at the moment the clear succeeds,
\* the clear sets the register to 0, so no later call can see the frame, and
\* the sample the call returns is the one announced by the status byte it
\* read before, with none of the waiting frame's points unless the call
\* happened to read them under the old count.
C22_PostedFrameDropped ==
    [][ (poll.pc = "clear" /\ frame.pending /\ result'.kind = "returned") =>
          /\ dev'.status = 0
          /\ frame'.dropped
          /\ Len(result'.value) = (IF poll.touch_status >= 128 THEN poll.touch_status % 16 ELSE 0)
          /\ Len(bus') = Len(result'.value) + 2
      ]_vars

\* A call read the status 0, the device then posted a frame of one point, and
\* the call cleared the register and returned the empty sample.
C22_Witness ==
    /\ frame.dropped
    /\ result = [kind |-> "returned", value |-> << >>]
    /\ poll.touch_status = 0
    /\ dev.status = 0
    /\ dev.blocks = BlocksB

(***************************************************************************)
(* Further claims about the button state machine.                          *)
(***************************************************************************)
\* C23: the state of every button is always one of the six enumerated
\* states, and a non-latching button driven by ticks is only ever in NORMAL,
\* PRESSED or DEBOUNCED.  (That a latch-capable button reaches all six states
\* and a non-latching one all three, by ticks alone, is shown by the state
\* C23_Witness, which the loop reaches.)
C23_SixStates ==
    \A k \in DOMAIN buttons :
        /\ buttons[k]._state \in {0, 1, 15, 2, 3, 35}
        /\ buttons[k]._latching # "True" => buttons[k]._state \in {0, 1, 15}

\* Button 1 (latching) is in INDICATOR_DEBOUNCED, the last state of the cycle
\* NORMAL, PRESSED, DEBOUNCED, INDICATOR, INDICATOR_PRESSED,
\* INDICATOR_DEBOUNCED, and button 3 (non-latching) is in DEBOUNCED, the last
\* of NORMAL, PRESSED, DEBOUNCED.
C23_Witness ==
    /\ buttons[1]._latching = "True" /\ buttons[1]._state = 35
    /\ buttons[3]._latching = "False" /\ buttons[3]._state = 15

\* What can be observed of button j: its own fields and the object its
\* _buzzer attribute refers to.
Observable(bs, bz, j) == << bs[j], IF Truthy(bs[j]._buzzer) THEN << bz >> ELSE << >> >>

\* A step of the main loop that is a tick of button loop.i.
LoopTickStep == loop.pc = "is_pressed" /\ loop' # loop

\* C24 as stated: nothing written during one button's tick is shared, so a
\* tick of button i leaves every observable of every other button unchanged.
C24_NoSharedState ==
    [][ LoopTickStep =>
          \A j \in DOMAIN buttons :
              j # loop.i => Observable(buttons', buzzer', j) = Observable(buttons, buzzer, j)
      ]_vars

\* C24: a tick of button i changes no field of any other button (state,
\* timestamp, touched flag, icon, geometry) and nothing of the controller;
\* the one Buzzer object, however, is shared by all six buttons, and a tick
\* that confirms a touch plays the tone on it: after such a tick the buzzer
\* holds a PWM set to 1760 Hz, stopped, whichever button was ticked; a tick
\* that plays no tone leaves the buzzer unchanged.
C24_OnlyBuzzerShared ==
    [][ LoopTickStep =>
          /\ \A j \in DOMAIN buttons :
                /\ j # loop.i => buttons'[j] = buttons[j]
                /\ buttons'[j]._buzzer = "buzzer"
          /\ <<dev, poll, bus, result, gt, pins, chip, events>>' =
                <<dev, poll, bus, result, gt, pins, chip, events>>
          /\ buzzer' = IF tones' = 1
                           THEN [pwm |-> "PWMOut", frequency |-> 1760,
                                 duty_cycle |-> 0, is_playing |-> FALSE]
                           ELSE buzzer
          /\ tones' = 1 <=>
                /\ buttons[loop.i]._state \in {1, 3}
                /\ buttons'[loop.i]._state \in {15, 35}
      ]_vars

\* The tick of button 3 has just played the first tone of the run on the
\* buzzer that button 1, untouched so far, refers to as well.
C24_Witness ==
    /\ now = 160 /\ op = "tick" /\ tones = 1
    /\ loop.calls[Len(loop.calls)].button = 3
    /\ buttons[1]._state = 0 /\ buttons[1]._buzzer = "buzzer"
    /\ buzzer.pwm = "PWMOut"

(***************************************************************************)
(* Further claims about the GT911 constructor.                             *)
(***************************************************************************)
\* The offsets (counted from 1) of the resolution bytes and the checksum byte.
PatchedOffsets == {2, 3, 4, 5, 185}

\* C25: the configuration block the constructor writes back differs from the
\* block it read only in the four resolution bytes (offsets 1..4) and the
\* checksum byte (offset 184); every other byte is written back as read.
C25_OnlyResolutionAndChecksum ==
    \A k \in DOMAIN events :
        events[k].kind = "write_bytes" =>
            /\ Len(events[k].n) = Len(chip.factory)
            /\ \A j \in DOMAIN chip.factory :
                  j \notin PatchedOffsets => events[k].n[j] = chip.factory[j]

\* A block of 0x65 bytes read as 320 x 480 was written back as 800 x 480 with
\* a new checksum.
C25_Witness ==
    \E k \in DOMAIN events :
        /\ events[k].kind = "write_bytes" /\ events[k].ok
        /\ chip.factory[1] = 101 /\ FactoryResolution = <<320, 480>>
        /\ events[k].n[2] # chip.factory[2]
        /\ events[k].n[185] # chip.factory[185]
        /\ events[k].n[1] = 101 /\ events[k].n[184] = 101

\* The constructor's events that are not transport operations or the opening
\* of the session: what _perform_reset did.
IsResetEvent(e) == e.kind \in {"pin", "sleep"} /\ ~(e.kind = "sleep" /\ e.us >= 500000)

\* C26: after the reset step, whichever of the two lines exist: the interrupt
\* line, if present, is an input; the reset line, if present, is an output
\* driven high; with only the interrupt line, the one thing done is to switch
\* it to input, with no reset pulse and no wait; with neither line no pin
\* operation is performed; a line that does not exist is never operated.
C26_PinsAfterReset ==
    gt.pc # "new" =>
        /\ gt._interrupt # "None" => pins.int.direction = "input"
        /\ gt._reset # "None" =>
              /\ pins.reset.direction = "output" /\ pins.reset.value = TRUE
              /\ events[Max(ResetLowAt \cup ResetHighAt)].value = TRUE
        /\ (gt._reset = "None" /\ gt._interrupt # "None") =>
              /\ SelectSeq(events, IsResetEvent) =
                    << [kind |-> "pin", pin |-> "int", act |-> "input", value |-> FALSE,
                        drive_mode |-> "same"] >>
              /\ events[2].kind = "open"
        /\ (gt._reset = "None" /\ gt._interrupt = "None") =>
              /\ PinAt = {}
              /\ events[1].kind = "open"
        /\ \A k \in PinAt :
              /\ events[k].pin = "reset" => gt._reset # "None"
              /\ events[k].pin = "int" => gt._interrupt # "None"

\* A constructor with an interrupt line and no reset line has gone past its
\* reset step.
C26_Witness ==
    /\ gt.pc # "new"
    /\ gt._reset = "None" /\ gt._interrupt # "None"
    /\ Len(events) >= 2
    /\ events[1].kind = "pin" /\ events[1].act = "input"
    /\ pins.int.direction = "input"

(***************************************************************************)
(* Further claims about one button.                                        *)
(***************************************************************************)
\* The icon the claim assigns to each state.
IconOf(state) ==
    IF state \in {STATE_NORMAL, STATE_PRESSED} THEN ICON_NORMAL
    ELSE IF state = STATE_DEBOUNCED THEN ICON_PRESSED
    ELSE IF state \in {STATE_INDICATOR, STATE_INDICATOR_PRESSED} THEN ICON_INDICATOR
    ELSE ICON_INDICATOR_PRESSED

\* C27: in every state reached by ticks and indicator assignments the icon is
\* determined by the state: NORMAL and PRESSED show icon 0, DEBOUNCED icon 1,
\* INDICATOR and INDICATOR_PRESSED icon 2, INDICATOR_DEBOUNCED icon 3; the icon
\* is always one of 0..3.
C27_IconOfState ==
    /\ Btn.icon = IconOf(Btn._state)
    /\ Btn.icon \in 0..3
    /\ Pre.icon = IconOf(Pre._state)

\* The release of a confirmed touch on a latched-on button: icon 3 before,
\* icon 0 after.
C27_Witness ==
    /\ IsTick /\ ret
    /\ Pre._state = STATE_INDICATOR_DEBOUNCED /\ Pre.icon = 3
    /\ Btn._state = STATE_NORMAL /\ Btn.icon = 0

\* C28: after a tick whose sample does not touch the button, whatever the
\* state and the elapsed time before it, the state is NORMAL or INDICATOR, and
\* INDICATOR only on a latch-capable button; no untouched tick leaves PRESSED,
\* DEBOUNCED, INDICATOR_PRESSED or INDICATOR_DEBOUNCED.
C28_UntouchedTickRests ==
    (IsTick /\ ~SampleTouches) =>
        /\ ~Btn._is_touched
        /\ Btn._state \in {STATE_NORMAL, STATE_INDICATOR}
        /\ Btn._state = STATE_INDICATOR => Latch

\* A touch on a latched-on button interrupted after 40 ms by a sample whose
\* only point lies outside the button.
C28_Witness ==
    /\ IsTick /\ ~SampleTouches /\ touches # <<>>
    /\ Pre._state = STATE_INDICATOR_PRESSED /\ Elapsed = 40
    /\ Btn._state = STATE_INDICATOR

\* The last operation entered DEBOUNCED or INDICATOR_DEBOUNCED.
EntersDebounced ==
    /\ Btn._state \in {STATE_DEBOUNCED, STATE_INDICATOR_DEBOUNCED}
    /\ Pre._state # Btn._state

\* C29: an interrupted touch restarts the debounce.  DEBOUNCED and
\* INDICATOR_DEBOUNCED are entered only by a tick on which the button has been
\* touched on every tick since the one that recorded the timestamp and on which
\* more than the debounce delay has passed since that timestamp; the timestamp
\* is written only by the ticks NORMAL -> PRESSED and INDICATOR ->
\* INDICATOR_PRESSED, which record the clock value of that tick.
C29_InterruptedTouchRestarts ==
    /\ EntersDebounced =>
          /\ IsTick /\ SampleTouches
          /\ Pre._state = PressedOf(ep.from) /\ Btn._state = DebouncedOf(ep.from)
          /\ ep.phase = "held" /\ ep.last = now
          /\ ep.t0 = Btn._last_touch_time
          /\ now - Btn._last_touch_time > Btn._debounce_delay
    /\ Btn._last_touch_time # Pre._last_touch_time =>
          /\ IsTick /\ SampleTouches
          /\ Pre._state \in {STATE_NORMAL, STATE_INDICATOR}
          /\ Btn._state = PressedOf(Pre._state)
          /\ Btn._last_touch_time = now
    /\ (IsTick /\ Btn._state \in {STATE_PRESSED, STATE_INDICATOR_PRESSED}) =>
          /\ ep.phase = "held" /\ ep.t0 = Btn._last_touch_time

\* A touch recorded at 40 ms was interrupted; the button is touched again at
\* 200 ms, 160 ms after the old timestamp, and the tick records a new timestamp
\* and enters PRESSED instead of confirming.
C29_Witness ==
    /\ IsTick /\ SampleTouches /\ presses = 0
    /\ Pre._state = STATE_NORMAL /\ Pre._last_touch_time = 40
    /\ now = 200 /\ now - Pre._last_touch_time > Btn._debounce_delay
    /\ Btn._state = STATE_PRESSED /\ Btn._last_touch_time = 200
    /\ ep.phase = "held" /\ ep.t0 = 200

(***************************************************************************)
(* Totality of GT911.touches over the status byte.                         *)
(***************************************************************************)
\* C30: poll is total over the status byte: for every value of the status
\* byte, including bit 7 set with a count of 6..15, a call whose transport
\* transactions all succeed returns normally, with a sample of at most 5
\* points, and has cleared the status register once.
C30_PollTotal ==
    (CallEnded /\ Failed = {}) =>
        /\ result.kind = "returned"
        /\ Len(result.value) <= 5
        /\ Cardinality(StatusClears) = 1

(***************************************************************************)
(* The hit regions of the layout built by code.py.                         *)
(***************************************************************************)
\* The buttons of the list that the tick of the current iteration found
\* touched.
TouchedButtons == { j \in DOMAIN buttons : buttons[j]._is_touched }

\* C31: with the layout of code.py (80-pixel buttons at an 80-pixel pitch in
\* two columns) every touch point lies in the hit region of at most one
\* button: when every button has been ticked with a sample of one point, at
\* most one button is touched.
C31_OnePointOneButton ==
    (loop.pc = "sleep" /\ Len(touches) = 1) => Cardinality(TouchedButtons) <= 1

====
